---- MODULE Spec2Model ----
(***************************************************************************)
(* unglued: the in-memory paste store (internal/store), the paste model    *)
(* (internal/model), the helpers of internal/util and the HTTP handlers of *)
(* internal/httpx that create, read and edit pastes.                       *)
(*                                                                         *)
(* Text is a sequence of tokens: <<>> is the empty string, " " is one      *)
(* white-space character, any other token is a run of non-space            *)
(* characters.  Time is counted in hours since the process started.        *)
(* A Go slice is a header [arr, len, cap] over a shared backing array in   *)
(* `heap`; copying a Paste copies the header, not the array.               *)
(***************************************************************************)
EXTENDS Integers, Sequences, FiniteSets, TLC

(* ---- bounds of the model ---- *)
MaxTime == 2
MaxVersions == 2
DeepVersions == 4
LongVersions == 7

(* Two requests are in flight at most: one from a browser, which uses the  *)
(* form handlers, and one from a script, which uses the JSON API and /raw. *)
Browsers == {1}
Scripts == {2}
Clients == Browsers \cup Scripts
Times == 0..MaxTime

(* ---- strings ---- *)
IsSpace(t) == t = " "

RECURSIVE TrimLeft(_)
TrimLeft(s) ==
    IF s # <<>> /\ IsSpace(Head(s)) THEN TrimLeft(Tail(s)) ELSE s

RECURSIVE TrimRight(_)
TrimRight(s) ==
    IF s # <<>> /\ IsSpace(s[Len(s)]) THEN TrimRight(SubSeq(s, 1, Len(s) - 1)) ELSE s

TrimSpace(s) == TrimRight(TrimLeft(s))

LowerOf(t) ==
    CASE t = "ON" -> "on"
      [] t = "True" -> "true"
      [] t = "YES" -> "yes"
      [] OTHER -> t

ToLower(s) == [i \in 1..Len(s) |-> LowerOf(s[i])]

IsTruthy(s) ==
    LET t == ToLower(TrimSpace(s))
    IN t = <<"1">> \/ t = <<"true">> \/ t = <<"on">> \/ t = <<"yes">>

(* ---- internal/httpx/server.go: Langs, Themes ---- *)
Langs == { <<"plaintext">>, <<"go">>, <<"javascript">>, <<"typescript">>, <<"json">>,
           <<"yaml">>, <<"toml">>, <<"python">>, <<"bash">>, <<"html">>, <<"css">>,
           <<"sql">>, <<"markdown">> }
Themes == { <<"dark">>, <<"light">> }

(* normalizeLang letting every tag through *)
normalizeLang_Any(lang) == lang

normalizeLang(lang) == IF lang \notin Langs THEN <<"plaintext">> ELSE lang

(* ---- util.ParseTTL ---- *)
Hour == 1

NumVal(t) ==
    CASE t = "0" -> 0
      [] t = "1" -> 1
      [] t = "2" -> 2
      [] t = "7" -> 7
      [] t = "24" -> 24
      [] t = "168" -> 168
      [] OTHER -> -1

IsNum(t) == NumVal(t) >= 0

(* time.ParseDuration on [sign] (number unit)+ ; "h" is the one unit that   *)
(* is a whole number of hours, "d" is no unit of time.ParseDuration.        *)
RECURSIVE ParsePairs(_)
ParsePairs(s) ==
    IF s = <<>> THEN [ok |-> TRUE, d |-> 0]
    ELSE IF Len(s) < 2 \/ ~IsNum(s[1]) \/ s[2] # "h" THEN [ok |-> FALSE, d |-> 0]
    ELSE LET r == ParsePairs(SubSeq(s, 3, Len(s)))
         IN [ok |-> r.ok, d |-> IF r.ok THEN NumVal(s[1]) * Hour + r.d ELSE 0]

ParseDuration(s) ==
    LET neg  == s # <<>> /\ s[1] = "-"
        body == IF s # <<>> /\ (s[1] = "-" \/ s[1] = "+") THEN Tail(s) ELSE s
        r    == ParsePairs(body)
    IN IF body = <<>> THEN [ok |-> FALSE, d |-> 0]
       ELSE IF body = <<"0">> THEN [ok |-> TRUE, d |-> 0]
       ELSE [ok |-> r.ok, d |-> IF neg THEN 0 - r.d ELSE r.d]

(* ParseTTL without the case "7d" *)
ParseTTL_NoDays(s) ==
    CASE s = <<"1", "h">> -> [ok |-> TRUE, d |-> Hour]
      [] s = <<"24", "h">> -> [ok |-> TRUE, d |-> 24 * Hour]
      [] s = <<"168", "h">> -> [ok |-> TRUE, d |-> 168 * Hour]
      [] s = <<>> -> [ok |-> TRUE, d |-> 24 * Hour]
      [] OTHER -> ParseDuration(s)

ParseTTL(s) ==
    CASE s = <<"1", "h">> -> [ok |-> TRUE, d |-> Hour]
      [] s = <<"24", "h">> -> [ok |-> TRUE, d |-> 24 * Hour]
      [] s = <<"168", "h">> \/ s = <<"7", "d">> -> [ok |-> TRUE, d |-> 168 * Hour]
      [] s = <<>> -> [ok |-> TRUE, d |-> 24 * Hour]
      [] OTHER -> ParseDuration(s)

(* TTL strings of up to MaxTTLLen tokens: numbers, units, a sign, and a token   *)
(* that is none of them                                                        *)
MaxTTLLen == 3
TTLTokens == {"0", "1", "7", "24", "168", "h", "d", "-", "x"}
(* a number is one token: no two number tokens stand side by side *)
OneTokenPerNumber(s) == \A i \in 1..(Len(s) - 1) : ~(IsNum(s[i]) /\ IsNum(s[i + 1]))
TTLStrings ==
    { s \in UNION { [1..n -> TTLTokens] : n \in 0..MaxTTLLen } : OneTokenPerNumber(s) }

(* ---- util.GzipEncode / util.GzipDecode ---- *)
(* A gzip stream is its header, the deflated data and its trailer.  The data is *)
(* deflated into runs of one token; the trailer holds the length of the data.   *)
Header == [k |-> "header", sym |-> "", n |-> 0]
Run(sym, n) == [k |-> "run", sym |-> sym, n |-> n]
Trailer(n) == [k |-> "trailer", sym |-> "", n |-> n]

(* a compressor that writes every run as a run of one *)
RECURSIVE Deflate_Lossy(_)
Deflate_Lossy(s) ==
    IF s = <<>> THEN <<>>
    ELSE LET rest == Deflate_Lossy(Tail(s))
         IN IF rest # <<>> /\ rest[1].sym = Head(s)
            THEN rest
            ELSE <<Run(Head(s), 1)>> \o rest

(* zw.Write: the compressor *)
RECURSIVE Deflate(_)
Deflate(s) ==
    IF s = <<>> THEN <<>>
    ELSE LET rest == Deflate(Tail(s))
         IN IF rest # <<>> /\ rest[1].sym = Head(s)
            THEN <<Run(Head(s), rest[1].n + 1)>> \o Tail(rest)
            ELSE <<Run(Head(s), 1)>> \o rest

(* io.ReadAll(zr): the decompressor; it fails on what is no deflated data *)
RECURSIVE Inflate(_)
Inflate(d) ==
    IF d = <<>> THEN [ok |-> TRUE, s |-> <<>>]
    ELSE IF d[1].k # "run" \/ d[1].n < 1 THEN [ok |-> FALSE, s |-> <<>>]
    ELSE LET r == Inflate(Tail(d))
         IN [ok |-> r.ok,
             s  |-> IF r.ok THEN [i \in 1..d[1].n |-> d[1].sym] \o r.s ELSE <<>>]

GzipEncode(s) == <<Header>> \o Deflate(s) \o <<Trailer(Len(s))>>

(* an error of gzip.NewReader (no header) or of io.ReadAll (the stream ends     *)
(* early, is no deflated data, or has not the length its trailer states)        *)
GzipDecode(b) ==
    IF b = <<>> \/ b[1] # Header THEN [ok |-> FALSE, s |-> <<>>]
    ELSE IF Len(b) < 2 \/ b[Len(b)].k # "trailer" THEN [ok |-> FALSE, s |-> <<>>]
    ELSE LET r == Inflate(SubSeq(b, 2, Len(b) - 1))
         IN IF ~r.ok \/ Len(r.s) # b[Len(b)].n
            THEN [ok |-> FALSE, s |-> <<>>]
            ELSE [ok |-> TRUE, s |-> r.s]

(* content strings of up to MaxContent tokens *)
MaxContent == 3
Tokens == {"a", "b", " "}
Contents == UNION { [1..n -> Tokens] : n \in 0..MaxContent }

(* ---- util.NewID: the strings one call can return ---- *)
Ids == {<<"id", 1>>}
Keys == {<<"key", 1>>}
NewID(n) == IF n = 8 THEN Ids ELSE Keys

(* ---- util.NewID, character by character ---- *)
MaxIdBytes == 3

(* the lengths NewID is called with: 8 and 12 by buildPaste, and the short ones *)
IdLens == (1..MaxIdBytes) \cup {8, 12}

UpperCase == { "A", "B", "C", "D", "E", "F", "G", "H", "I", "J", "K", "L", "M", "N", "O", "P", "Q", "R", "S", "T", "U", "V", "W", "X", "Y", "Z" }
LowerCase == { "a", "b", "c", "d", "e", "f", "g", "h", "i", "j", "k", "l", "m", "n", "o", "p", "q", "r", "s", "t", "u", "v", "w", "x", "y", "z" }
Digits == { "0", "1", "2", "3", "4", "5", "6", "7", "8", "9" }

(* a character that may stand in a URL path segment unescaped *)
URLSafe(ch) == ch \in UpperCase \cup LowerCase \cup Digits \cup {"-", "_"}

(* base64.StdEncoding in the place of base64.RawURLEncoding *)
encodeStd ==
    <<
    "A", "B", "C", "D", "E", "F", "G", "H", "I", "J", "K", "L", "M", "N", "O", "P",
    "Q", "R", "S", "T", "U", "V", "W", "X", "Y", "Z", "a", "b", "c", "d", "e", "f",
    "g", "h", "i", "j", "k", "l", "m", "n", "o", "p", "q", "r", "s", "t", "u", "v",
    "w", "x", "y", "z", "0", "1", "2", "3", "4", "5", "6", "7", "8", "9", "+", "/" >>

(* the alphabet of base64.RawURLEncoding *)
encodeURL ==
    <<
    "A", "B", "C", "D", "E", "F", "G", "H", "I", "J", "K", "L", "M", "N", "O", "P",
    "Q", "R", "S", "T", "U", "V", "W", "X", "Y", "Z", "a", "b", "c", "d", "e", "f",
    "g", "h", "i", "j", "k", "l", "m", "n", "o", "p", "q", "r", "s", "t", "u", "v",
    "w", "x", "y", "z", "0", "1", "2", "3", "4", "5", "6", "7", "8", "9", "-", "_" >>

(* base64 without padding: 3 bytes give 4 characters, 2 give 3, 1 gives 2 *)
RECURSIVE EncodeToString(_)
EncodeToString(b) ==
    IF Len(b) = 0 THEN <<>>
    ELSE IF Len(b) = 1
    THEN LET v == b[1] * 16
         IN <<encodeURL[(v \div 64) + 1], encodeURL[(v % 64) + 1]>>
    ELSE IF Len(b) = 2
    THEN LET v == (b[1] * 256 + b[2]) * 4
         IN <<encodeURL[(v \div 4096) + 1], encodeURL[((v \div 64) % 64) + 1],
              encodeURL[(v % 64) + 1]>>
    ELSE LET v == b[1] * 65536 + b[2] * 256 + b[3]
         IN <<encodeURL[(v \div 262144) + 1], encodeURL[((v \div 4096) % 64) + 1],
              encodeURL[((v \div 64) % 64) + 1], encodeURL[(v % 64) + 1]>>
                \o EncodeToString(SubSeq(b, 4, Len(b)))

(* time.Now().Format("150405.000") as bytes: HHMMSS.mmm in ASCII *)
WallClocks ==
    { [h |-> 0, m |-> 0, s |-> 0, ms |-> 0],
      [h |-> 15, m |-> 4, s |-> 5, ms |-> 0],
      [h |-> 23, m |-> 59, s |-> 59, ms |-> 999] }

TwoDigits(n) == <<48 + (n \div 10), 48 + (n % 10)>>
ThreeDigits(n) == <<48 + (n \div 100), 48 + ((n \div 10) % 10), 48 + (n % 10)>>

Format(t) ==
    TwoDigits(t.h) \o TwoDigits(t.m) \o TwoDigits(t.s) \o <<46>> \o ThreeDigits(t.ms)

(* what rand.Read(b) can do to b := make([]byte, n): fill it, or fail *)
RandBytes == {0, 65, 251, 255}
Patterns == {<<x>> : x \in RandBytes} \cup {<<x, y>> : x \in RandBytes, y \in RandBytes}
Fill(n, pat) == [i \in 1..n |-> pat[((i - 1) % Len(pat)) + 1]]

RandRead(n) ==
    {[err |-> FALSE, b |-> Fill(n, pat)] : pat \in Patterns}
        \cup {[err |-> TRUE, b |-> Fill(n, <<0>>)]}

(* NewID(n) with the outcome rd of its rand.Read and the reading t of its clock *)
NewIDWith(n, rd, t) ==
    IF rd.err THEN EncodeToString(Format(t)) ELSE EncodeToString(rd.b)

(* ---- internal/model: Version, Paste ---- *)
NoKey == <<>>
NoPaste == [ID |-> <<>>]
ZeroVersion == [ZCode |-> <<>>, Lang |-> <<>>, Author |-> <<>>, At |-> 0 - 1000000]

Version(code, lang, author, at) ==
    [ZCode |-> GzipEncode(code), Lang |-> lang, Author |-> author, At |-> at]

(* ---- Go slices of Version over the shared heap ---- *)
ArrIds == 1..(Cardinality(Ids) + Cardinality(Clients) + 1)

Elems(h, sl) == SubSeq(h[sl.arr], 1, sl.len)

Alloc(h) == CHOOSE a \in ArrIds : h[a] = <<>> /\ \A b \in ArrIds : b < a => h[b] # <<>>

GrowCap(oldcap) == 2 * oldcap

(* append(sl, v): [h, sl] after the call *)
AppendSlice(h, sl, v) ==
    IF sl.len < sl.cap
    THEN [h  |-> [h EXCEPT ![sl.arr][sl.len + 1] = v],
          sl |-> [sl EXCEPT !.len = sl.len + 1]]
    ELSE LET a == Alloc(h)
             c == GrowCap(sl.cap)
         IN [h  |-> [h EXCEPT ![a] = [i \in 1..c |->
                                        IF i <= sl.len THEN h[sl.arr][i]
                                        ELSE IF i = sl.len + 1 THEN v
                                        ELSE ZeroVersion]],
             sl |-> [arr |-> a, len |-> sl.len + 1, cap |-> c]]

(* ---- sync.RWMutex, and a goroutine's place in a method of Store ---- *)
Janitor == 0
NoOne == 0 - 1
Unlocked == [w |-> NoOne, readers |-> {}]
NoCall == [m |-> "none", at |-> "none"]

VARIABLES
    now,     \* the wall clock, in hours
    items,   \* Store.items: id -> the Paste stored, or NoPaste
    heap,    \* backing arrays of the Versions slices
    pc,      \* where each request handler stands
    loc,     \* the Paste a handler holds (p)
    resp,    \* the response written by the step just taken, if any
    appended, \* history: the handler's `if code != prevCode || lang != last.Lang` ran
    unswept, \* history: Store.items as it is when no janitor pass deletes anything
    jpc,     \* where the janitor goroutine stands: "select", "pass" or "done"
    jnow,    \* the janitor's `now := time.Now()` of the pass in progress
    quit,    \* Store.quitCh is closed
    tick,    \* a tick is waiting in the ticker's channel t.C
    call,    \* the function of internal/util called last, with its arguments
    ret,     \* what that call returned
    gotAt,   \* history: the hour at which the edit handler's Store.Get returned
    mu,      \* Store.mu: the goroutine holding it for writing, those holding it for reading
    lk       \* the Store method each request goroutine is in, and where in it

sweeper == <<jpc, jnow, quit, tick>>

util == <<call, ret>>

locks == <<mu, lk>>

(* everything but the record of the calls of internal/util *)
server == <<now, items, heap, pc, loc, resp, appended, unswept, sweeper, gotAt, locks>>

vars == <<now, items, heap, pc, loc, resp, appended, unswept, sweeper, util, gotAt, locks>>

(* backing arrays no Paste refers to are reclaimed *)
Referenced(its, lc) ==
    {its[i].Versions.arr : i \in {j \in Ids : its[j] # NoPaste}}
        \cup {lc[c].Versions.arr : c \in {d \in Clients : lc[d] # NoPaste}}

Collect(h, its, lc) == [a \in ArrIds |-> IF a \in Referenced(its, lc) THEN h[a] ELSE <<>>]

(* ---- responses ---- *)
Resp(status, id, n, body) == [status |-> status, id |-> id, versions |-> n, body |-> body]
NoResp == Resp(0, <<>>, 0, <<>>)

Init ==
    /\ now = 0
    /\ items = [i \in Ids |-> NoPaste]
    /\ heap = [a \in ArrIds |-> <<>>]
    /\ pc = [c \in Clients |-> "idle"]
    /\ loc = [c \in Clients |-> NoPaste]
    /\ resp = NoResp
    /\ appended = [c \in Clients |-> FALSE]
    /\ unswept = [i \in Ids |-> NoPaste]
    /\ jpc = "select"
    /\ jnow = 0
    /\ quit = FALSE
    /\ tick = FALSE
    /\ call = [fn |-> "none"]
    /\ ret = [fn |-> "none"]
    /\ gotAt = [c \in Clients |-> 0]
    /\ mu = Unlocked
    /\ lk = [c \in Clients |-> NoCall]

(* ---- internal/store: Store.Get, Store.Put ---- *)
(* Get with the comparison of CountActive: a paste is gone from now = ExpiresAt *)
Get_NotBefore(its, id, t) ==
    IF its[id] = NoPaste \/ t >= its[id].ExpiresAt
    THEN [ok |-> FALSE, p |-> NoPaste]
    ELSE [ok |-> TRUE, p |-> its[id]]

Get(its, id, t) ==
    IF its[id] = NoPaste \/ t > its[id].ExpiresAt
    THEN [ok |-> FALSE, p |-> NoPaste]
    ELSE [ok |-> TRUE, p |-> its[id]]

Put(its, p) == [its EXCEPT ![p.ID] = p]

(* ---- internal/store: Store.CountActive ---- *)
(* CountActive with the comparison of Get: a paste counts until now > ExpiresAt *)
CountActive_NotAfter(its, t) ==
    Cardinality({i \in Ids : its[i] # NoPaste /\ ~(t > its[i].ExpiresAt)})

(* the loop `for _, p := range s.items { if now.Before(p.ExpiresAt) { n++ } }` *)
RECURSIVE CountRange(_, _, _)
CountRange(its, t, ids) ==
    IF ids = {} THEN 0
    ELSE LET i == CHOOSE j \in ids : TRUE
         IN (IF t < its[i].ExpiresAt THEN 1 ELSE 0) + CountRange(its, t, ids \ {i})

CountActive(its, t) == CountRange(its, t, {i \in Ids : its[i] # NoPaste})

(* ---- httpx: canEditPaste, buildPaste ---- *)
NoCookie == [set |-> FALSE, value |-> <<>>]
Cookie(v) == [set |-> TRUE, value |-> v]

(* canEditPaste preferring the cookie to the query key *)
canEditPaste_CookieFirst(key, cookie, p) ==
    IF ~p.Editable THEN FALSE
    ELSE LET k == IF cookie.set THEN cookie.value ELSE key
         IN k # NoKey /\ k = p.EditKey

canEditPaste(key, cookie, p) ==
    IF ~p.Editable THEN FALSE
    ELSE LET k == IF key = NoKey /\ cookie.set THEN cookie.value ELSE key
         IN k # NoKey /\ k = p.EditKey

(* buildPaste issuing an edit key to every paste *)
buildPaste_KeyAlways(code, lang, ttl, theme, editable, author, t, id, key, a) ==
    LET c   == TrimSpace(code)
        l   == normalizeLang(lang)
        th  == IF theme \notin Themes THEN <<"dark">> ELSE theme
        dur == ParseTTL(ttl)
    IN IF c = <<>> THEN [ok |-> FALSE, err |-> "Code darf nicht leer sein"]
       ELSE IF ~dur.ok THEN [ok |-> FALSE, err |-> "Ungueltige TTL"]
       ELSE [ok |-> TRUE,
             first |-> Version(c, l, author, t),
             p |-> [ID |-> id, Lang |-> l, Code |-> c, Theme |-> th,
                    ExpiresAt |-> t + dur.d,
                    Editable |-> editable,
                    EditKey |-> key,
                    Author |-> author,
                    Versions |-> [arr |-> a, len |-> 1, cap |-> 1],
                    CreatedAt |-> t, UpdatedAt |-> t]]

(* buildPaste leaving the history empty *)
buildPaste_NoVersion(code, lang, ttl, theme, editable, author, t, id, key, a) ==
    LET c   == TrimSpace(code)
        l   == normalizeLang(lang)
        th  == IF theme \notin Themes THEN <<"dark">> ELSE theme
        dur == ParseTTL(ttl)
    IN IF c = <<>> THEN [ok |-> FALSE, err |-> "Code darf nicht leer sein"]
       ELSE IF ~dur.ok THEN [ok |-> FALSE, err |-> "Ungueltige TTL"]
       ELSE [ok |-> TRUE,
             first |-> Version(c, l, author, t),
             p |-> [ID |-> id, Lang |-> l, Code |-> c, Theme |-> th,
                    ExpiresAt |-> t + dur.d,
                    Editable |-> editable,
                    EditKey |-> IF editable THEN key ELSE NoKey,
                    Author |-> author,
                    Versions |-> [arr |-> a, len |-> 0, cap |-> 1],
                    CreatedAt |-> t, UpdatedAt |-> t]]

(* buildPaste storing the content as it was sent *)
buildPaste_Untrimmed(code, lang, ttl, theme, editable, author, t, id, key, a) ==
    LET c   == code
        l   == normalizeLang(lang)
        th  == IF theme \notin Themes THEN <<"dark">> ELSE theme
        dur == ParseTTL(ttl)
    IN IF c = <<>> THEN [ok |-> FALSE, err |-> "Code darf nicht leer sein"]
       ELSE IF ~dur.ok THEN [ok |-> FALSE, err |-> "Ungueltige TTL"]
       ELSE [ok |-> TRUE,
             first |-> Version(c, l, author, t),
             p |-> [ID |-> id, Lang |-> l, Code |-> c, Theme |-> th,
                    ExpiresAt |-> t + dur.d,
                    Editable |-> editable,
                    EditKey |-> IF editable THEN key ELSE NoKey,
                    Author |-> author,
                    Versions |-> [arr |-> a, len |-> 1, cap |-> 1],
                    CreatedAt |-> t, UpdatedAt |-> t]]

(* buildPaste falling back to 24h for a TTL that does not parse *)
buildPaste_DefaultTTL(code, lang, ttl, theme, editable, author, t, id, key, a) ==
    LET c   == TrimSpace(code)
        l   == normalizeLang(lang)
        th  == IF theme \notin Themes THEN <<"dark">> ELSE theme
        dur == ParseTTL(ttl)
    IN IF c = <<>> THEN [ok |-> FALSE, err |-> "Code darf nicht leer sein"]
       ELSE IF FALSE THEN [ok |-> FALSE, err |-> "Ungueltige TTL"]
       ELSE [ok |-> TRUE,
             first |-> Version(c, l, author, t),
             p |-> [ID |-> id, Lang |-> l, Code |-> c, Theme |-> th,
                    ExpiresAt |-> t + (IF dur.ok THEN dur.d ELSE 24 * Hour),
                    Editable |-> editable,
                    EditKey |-> IF editable THEN key ELSE NoKey,
                    Author |-> author,
                    Versions |-> [arr |-> a, len |-> 1, cap |-> 1],
                    CreatedAt |-> t, UpdatedAt |-> t]]

(* buildPaste refusing a duration that is not positive *)
buildPaste_PositiveTTL(code, lang, ttl, theme, editable, author, t, id, key, a) ==
    LET c   == TrimSpace(code)
        l   == normalizeLang(lang)
        th  == IF theme \notin Themes THEN <<"dark">> ELSE theme
        dur == ParseTTL(ttl)
    IN IF c = <<>> THEN [ok |-> FALSE, err |-> "Code darf nicht leer sein"]
       ELSE IF ~dur.ok \/ dur.d <= 0 THEN [ok |-> FALSE, err |-> "Ungueltige TTL"]
       ELSE [ok |-> TRUE,
             first |-> Version(c, l, author, t),
             p |-> [ID |-> id, Lang |-> l, Code |-> c, Theme |-> th,
                    ExpiresAt |-> t + dur.d,
                    Editable |-> editable,
                    EditKey |-> IF editable THEN key ELSE NoKey,
                    Author |-> author,
                    Versions |-> [arr |-> a, len |-> 1, cap |-> 1],
                    CreatedAt |-> t, UpdatedAt |-> t]]

(* buildPaste with the results of its calls of time.Now, NewID(8), NewID(12)   *)
(* and the backing array of its one-element Versions literal                  *)
buildPaste(code, lang, ttl, theme, editable, author, t, id, key, a) ==
    LET c   == TrimSpace(code)
        l   == normalizeLang(lang)
        th  == IF theme \notin Themes THEN <<"dark">> ELSE theme
        dur == ParseTTL(ttl)
    IN IF c = <<>> THEN [ok |-> FALSE, err |-> "Code darf nicht leer sein"]
       ELSE IF ~dur.ok THEN [ok |-> FALSE, err |-> "Ungueltige TTL"]
       ELSE [ok |-> TRUE,
             first |-> Version(c, l, author, t),
             p |-> [ID |-> id, Lang |-> l, Code |-> c, Theme |-> th,
                    ExpiresAt |-> t + dur.d,
                    Editable |-> editable,
                    EditKey |-> IF editable THEN key ELSE NoKey,
                    Author |-> author,
                    Versions |-> [arr |-> a, len |-> 1, cap |-> 1],
                    CreatedAt |-> t, UpdatedAt |-> t]]

Reply(r) == resp' = r

(* ---- request inputs ---- *)
FormReq(code, lang, ttl, theme, editable, author, cookie) ==
    [code |-> code, lang |-> lang, ttl |-> ttl, theme |-> theme,
     editable |-> editable, author |-> author, cookie |-> cookie]

CreateForms ==
    { FormReq(<<" ", "a">>, <<" ", "go">>, <<"1", "h">>, <<"light">>, <<"ON">>, <<>>,
              Cookie(<<"amy">>)),
      FormReq(<<" ">>, <<"go">>, <<"1", "h">>, <<"light">>, <<"on">>, <<>>, NoCookie),
      FormReq(<<"a">>, <<"go">>, <<"x">>, <<"light">>, <<"on">>, <<>>, NoCookie) }

CreateJSON ==
    { FormReq(<<"b", " ">>, <<" ", "go">>, <<>>, <<"neon">>, FALSE, <<"bob", " ">>, NoCookie),
      FormReq(<<>>, <<"go">>, <<>>, <<"light">>, FALSE, <<>>, NoCookie),
      FormReq(<<"b">>, <<"go">>, <<"1", "d">>, <<"light">>, TRUE, <<>>, NoCookie) }

(* ---- GET / : the index page shows Store.CountActive() ---- *)
IndexResp(n) == [status |-> 200, id |-> <<>>, versions |-> 0, body |-> <<>>, count |-> n]

handleIndex(c) ==
    /\ pc[c] = "idle"
    /\ Reply(IndexResp(CountActive(items, now)))
    /\ UNCHANGED <<now, items, heap, pc, loc, appended>>

(* ---- POST /paste ---- *)
handleCreate(c, r, id, key) ==
    /\ pc[c] = "idle"
    /\ LET au == TrimSpace(r.author)
            author == IF au = <<>> /\ r.cookie.set THEN r.cookie.value ELSE au
            a == Alloc(heap)
            b == buildPaste(TrimSpace(r.code), TrimSpace(r.lang), TrimSpace(r.ttl),
                            TrimSpace(r.theme), IsTruthy(r.editable), author,
                            now, id, key, a)
        IN IF ~b.ok
           THEN /\ Reply(Resp(400, <<>>, 0, <<>>))
                /\ UNCHANGED <<now, items, heap, pc, loc, appended>>
           ELSE /\ items' = Put(items, b.p)
                /\ heap' = Collect([heap EXCEPT ![a] = <<b.first>>], items', loc)
                /\ Reply(Resp(303, b.p.ID, 0, <<>>))
                /\ UNCHANGED <<now, pc, loc, appended>>

(* ---- POST /api/paste (JSON body) ---- *)
handleAPIPaste(c, r, id, key) ==
    /\ pc[c] = "idle"
    /\ LET a == Alloc(heap)
            b == buildPaste(r.code, r.lang, r.ttl, r.theme, r.editable,
                            TrimSpace(r.author), now, id, key, a)
        IN IF ~b.ok
           THEN /\ Reply(Resp(400, <<>>, 0, <<>>))
                /\ UNCHANGED <<now, items, heap, pc, loc, appended>>
           ELSE /\ items' = Put(items, b.p)
                /\ heap' = Collect([heap EXCEPT ![a] = <<b.first>>], items', loc)
                /\ Reply(Resp(200, b.p.ID, 0, <<>>))
                /\ UNCHANGED <<now, pc, loc, appended>>

(* ---- edit requests ---- *)
Auth(key, cookie) == [key |-> key, cookie |-> cookie]
BadKey == <<"key", 0>>

AuthInputs ==
    { Auth(k, NoCookie) : k \in Keys } \cup { Auth(NoKey, Cookie(k)) : k \in Keys }
        \cup { Auth(BadKey, Cookie(k)) : k \in Keys } \cup { Auth(NoKey, NoCookie) }

KeyInputs == Keys \cup {NoKey, BadKey}

Body(ok, code, lang, author) == [ok |-> ok, code |-> code, lang |-> lang, author |-> author]

EditBodies ==
    { Body(TRUE, <<" ", "b">>, <<"go">>, <<"cy", " ">>),
      Body(TRUE, <<"a">>, <<" ", "go">>, <<>>),
      Body(TRUE, <<" ">>, <<"go">>, <<"cy">>),
      Body(FALSE, <<>>, <<>>, <<>>) }

(* the common tail restarting the time to live on every edit *)
Edited_RefreshTTL(h, p, code, lang, author, t) ==
    LET last     == h[p.Versions.arr][p.Versions.len]
        prevCode == GzipDecode(last.ZCode).s
        ap       == IF code # prevCode \/ lang # last.Lang
                    THEN AppendSlice(h, p.Versions, Version(code, lang, author, t))
                    ELSE [h |-> h, sl |-> p.Versions]
    IN [h |-> ap.h,
        p |-> [p EXCEPT !.Versions = ap.sl,
                        !.Code = code,
                        !.Lang = lang,
                        !.Author = IF author # <<>> THEN author ELSE p.Author,
                        !.ExpiresAt = t + (p.ExpiresAt - p.CreatedAt),
                        !.UpdatedAt = t]]

(* the common tail taking the author of the request even when it is empty *)
Edited_AuthorAlways(h, p, code, lang, author, t) ==
    LET last     == h[p.Versions.arr][p.Versions.len]
        prevCode == GzipDecode(last.ZCode).s
        ap       == IF code # prevCode \/ lang # last.Lang
                    THEN AppendSlice(h, p.Versions, Version(code, lang, author, t))
                    ELSE [h |-> h, sl |-> p.Versions]
    IN [h |-> ap.h,
        p |-> [p EXCEPT !.Versions = ap.sl,
                        !.Code = code,
                        !.Lang = lang,
                        !.Author = author,
                        !.UpdatedAt = t]]

(* the handlers' common tail: compare with the last version, append, update p *)
Edited(h, p, code, lang, author, t) ==
    LET last     == h[p.Versions.arr][p.Versions.len]
        prevCode == GzipDecode(last.ZCode).s
        ap       == IF code # prevCode \/ lang # last.Lang
                    THEN AppendSlice(h, p.Versions, Version(code, lang, author, t))
                    ELSE [h |-> h, sl |-> p.Versions]
    IN [h |-> ap.h,
        p |-> [p EXCEPT !.Versions = ap.sl,
                        !.Code = code,
                        !.Lang = lang,
                        !.Author = IF author # <<>> THEN author ELSE p.Author,
                        !.UpdatedAt = t]]

(* ---- POST /p/{id}/edit ---- *)
handleEditSave_Get(c, id, au) ==
    /\ pc[c] = "idle"
    /\ LET g == Get(items, id, now)
        IN IF ~g.ok
           THEN /\ Reply(Resp(404, id, 0, <<>>))
                /\ UNCHANGED <<now, items, heap, pc, loc, appended>>
           ELSE IF ~canEditPaste(au.key, au.cookie, g.p)
           THEN /\ Reply(Resp(403, id, 0, <<>>))
                /\ UNCHANGED <<now, items, heap, pc, loc, appended>>
           ELSE /\ pc' = [pc EXCEPT ![c] = "save"]
                /\ loc' = [loc EXCEPT ![c] = g.p]
                /\ Reply(NoResp)
                /\ UNCHANGED <<now, items, heap, appended>>

(* the form edit without the check of the trimmed content *)
handleEditSave_Append_NoCheck(c, t, b) ==
    /\ pc[c] = "save"
    /\ LET code   == TrimSpace(b.code)
            lang   == normalizeLang(TrimSpace(b.lang))
            author == TrimSpace(b.author)
            e      == Edited(heap, loc[c], code, lang, author, t)
        IN IF ~b.ok
           THEN /\ pc' = [pc EXCEPT ![c] = "idle"]
                /\ loc' = [loc EXCEPT ![c] = NoPaste]
                /\ heap' = Collect(heap, items, loc')
                /\ Reply(Resp(400, loc[c].ID, 0, <<>>))
                /\ UNCHANGED <<now, items, appended>>
           ELSE /\ pc' = [pc EXCEPT ![c] = "savePut"]
                /\ loc' = [loc EXCEPT ![c] = e.p]
                /\ heap' = Collect(e.h, items, loc')
                /\ appended' = [appended EXCEPT ![c] = e.p.Versions # loc[c].Versions]
                /\ Reply(NoResp)
                /\ UNCHANGED <<now, items>>

(* b: the body of the request; t: the handler's `now := time.Now()`, read after *)
(* its Get and before its append                                              *)
handleEditSave_Append(c, t, b) ==
    /\ pc[c] = "save"
    /\ LET code   == TrimSpace(b.code)
            lang   == normalizeLang(TrimSpace(b.lang))
            author == TrimSpace(b.author)
            e      == Edited(heap, loc[c], code, lang, author, t)
        IN IF ~b.ok \/ code = <<>>
           THEN /\ pc' = [pc EXCEPT ![c] = "idle"]
                /\ loc' = [loc EXCEPT ![c] = NoPaste]
                /\ heap' = Collect(heap, items, loc')
                /\ Reply(Resp(400, loc[c].ID, 0, <<>>))
                /\ UNCHANGED <<now, items, appended>>
           ELSE /\ pc' = [pc EXCEPT ![c] = "savePut"]
                /\ loc' = [loc EXCEPT ![c] = e.p]
                /\ heap' = Collect(e.h, items, loc')
                /\ appended' = [appended EXCEPT ![c] = e.p.Versions # loc[c].Versions]
                /\ Reply(NoResp)
                /\ UNCHANGED <<now, items>>

handleEditSave_Put(c) ==
    /\ pc[c] = "savePut"
    /\ items' = Put(items, loc[c])
    /\ pc' = [pc EXCEPT ![c] = "idle"]
    /\ loc' = [loc EXCEPT ![c] = NoPaste]
    /\ heap' = Collect(heap, items', loc')
    /\ appended' = [appended EXCEPT ![c] = FALSE]
    /\ Reply(Resp(303, loc[c].ID, loc[c].Versions.len, <<>>))
    /\ UNCHANGED now

(* ---- POST /api/paste/{id}/edit ---- *)
handleAPIEdit_Get(c, id, key) ==
    /\ pc[c] = "idle"
    /\ LET g == Get(items, id, now)
        IN IF ~g.ok
           THEN /\ Reply(Resp(404, id, 0, <<>>))
                /\ UNCHANGED <<now, items, heap, pc, loc, appended>>
           ELSE IF key = NoKey
           THEN /\ Reply(Resp(401, id, 0, <<>>))
                /\ UNCHANGED <<now, items, heap, pc, loc, appended>>
           ELSE IF ~g.p.Editable \/ key # g.p.EditKey
           THEN /\ Reply(Resp(403, id, 0, <<>>))
                /\ UNCHANGED <<now, items, heap, pc, loc, appended>>
           ELSE /\ pc' = [pc EXCEPT ![c] = "api"]
                /\ loc' = [loc EXCEPT ![c] = g.p]
                /\ Reply(NoResp)
                /\ UNCHANGED <<now, items, heap, appended>>

handleAPIEdit_Append(c, t, b) ==
    /\ pc[c] = "api"
    /\ LET code   == TrimSpace(b.code)
            lang   == normalizeLang(b.lang)
            author == TrimSpace(b.author)
            e      == Edited(heap, loc[c], code, lang, author, t)
        IN IF ~b.ok \/ code = <<>>
           THEN /\ pc' = [pc EXCEPT ![c] = "idle"]
                /\ loc' = [loc EXCEPT ![c] = NoPaste]
                /\ heap' = Collect(heap, items, loc')
                /\ Reply(Resp(400, loc[c].ID, 0, <<>>))
                /\ UNCHANGED <<now, items, appended>>
           ELSE /\ pc' = [pc EXCEPT ![c] = "apiPut"]
                /\ loc' = [loc EXCEPT ![c] = e.p]
                /\ heap' = Collect(e.h, items, loc')
                /\ appended' = [appended EXCEPT ![c] = e.p.Versions # loc[c].Versions]
                /\ Reply(NoResp)
                /\ UNCHANGED <<now, items>>

handleAPIEdit_Put(c) ==
    /\ pc[c] = "apiPut"
    /\ items' = Put(items, loc[c])
    /\ pc' = [pc EXCEPT ![c] = "idle"]
    /\ loc' = [loc EXCEPT ![c] = NoPaste]
    /\ heap' = Collect(heap, items', loc')
    /\ appended' = [appended EXCEPT ![c] = FALSE]
    /\ Reply(Resp(200, loc[c].ID, loc[c].Versions.len, <<>>))
    /\ UNCHANGED now

(* ---- GET /raw/{id} ---- *)
handleRaw_Get(c, id) ==
    /\ pc[c] = "idle"
    /\ LET g == Get(items, id, now)
       IN IF ~g.ok
          THEN /\ Reply(Resp(404, id, 0, <<>>))
               /\ UNCHANGED <<now, items, heap, pc, loc, appended>>
          ELSE /\ pc' = [pc EXCEPT ![c] = "raw"]
               /\ loc' = [loc EXCEPT ![c] = g.p]
               /\ Reply(NoResp)
               /\ UNCHANGED <<now, items, heap, appended>>

(* Another handler is between its Get and its Put and writes, without a lock,   *)
(* into the very element sl[len(sl)-1] that client c reads: it holds a shorter  *)
(* slice over the same backing array with room for one more element.           *)
Racing(c, sl) ==
    \E w \in Clients \ {c} :
        /\ loc[w] # NoPaste
        /\ loc[w].Versions.arr = sl.arr
        /\ \/ /\ pc[w] \in {"save", "api"}
              /\ loc[w].Versions.len + 1 = sl.len
              /\ loc[w].Versions.len < loc[w].Versions.cap
           \/ /\ pc[w] \in {"savePut", "apiPut"}
              /\ appended[w]
              /\ loc[w].Versions.len = sl.len

(* a Version read while it is written: the ZCode slice header has the pointer   *)
(* of one value and the length of the other, a stream that ends early          *)
Torn(v) == [v EXCEPT !.ZCode = SubSeq(v.ZCode, 1, Len(v.ZCode) - 1)]

(* what p.Versions[len(p.Versions)-1] can give client c: the element, or, in a  *)
(* data race with a writer, a torn one                                         *)
Load(c) ==
    IF loc[c] = NoPaste THEN {}
    ELSE LET sl == loc[c].Versions
             v  == heap[sl.arr][sl.len]
         IN IF Racing(c, sl) THEN {v, Torn(v)} ELSE {v}

handleRaw_Write(c, v) ==
    /\ pc[c] = "raw"
    /\ LET p     == loc[c]
           sText == GzipDecode(v.ZCode).s
       IN Reply(Resp(200, p.ID, 0, IF p.Versions.len > 0 THEN sText ELSE p.Code))
    /\ pc' = [pc EXCEPT ![c] = "idle"]
    /\ loc' = [loc EXCEPT ![c] = NoPaste]
    /\ heap' = Collect(heap, items, loc')
    /\ UNCHANGED <<now, items, appended>>

(* ---- GET /p/{id} ---- *)
(* strconv.Atoi on a string of one token: a decimal number with an optional sign *)
Atoi(s) ==
    IF Len(s) # 1 THEN [ok |-> FALSE, n |-> 0]
    ELSE CASE s[1] = "0" -> [ok |-> TRUE, n |-> 0]
           [] s[1] = "1" -> [ok |-> TRUE, n |-> 1]
           [] s[1] = "2" -> [ok |-> TRUE, n |-> 2]
           [] s[1] = "3" -> [ok |-> TRUE, n |-> 3]
           [] s[1] = "4" -> [ok |-> TRUE, n |-> 4]
           [] s[1] = "5" -> [ok |-> TRUE, n |-> 5]
           [] s[1] = "9" -> [ok |-> TRUE, n |-> 9]
           [] s[1] = "+2" -> [ok |-> TRUE, n |-> 2]
           [] s[1] = "-1" -> [ok |-> TRUE, n |-> 0 - 1]
           [] OTHER -> [ok |-> FALSE, n |-> 0]

(* the values of the query parameter v: absent, numbers, and what is no number *)
VParams ==
    { <<>>, <<" ">>, <<"x">>, <<"0">>, <<"-1">>, <<"1">>, <<" ", "2">>, <<"+2">>,
      <<"3">>, <<"4">>, <<"5">>, <<"9">>, <<"1", " ", "2">> }

(* the version picked, counted from 1, of a paste with n versions *)
vIdx(vParam, n) ==
    LET a == Atoi(TrimSpace(vParam))
    IN IF TrimSpace(vParam) # <<>> /\ a.ok /\ a.n >= 1 /\ a.n <= n THEN a.n ELSE n

(* what p.Versions[i] can give client c: only the last element can be in the     *)
(* course of being written                                                      *)
LoadAt(c, i) ==
    IF loc[c] = NoPaste \/ i < 1 \/ i > loc[c].Versions.len THEN {}
    ELSE IF i = loc[c].Versions.len THEN Load(c)
    ELSE {heap[loc[c].Versions.arr][i]}

(* the link "/p/" + p.ID + "/edit?key=" + p.EditKey, and no link *)
EditURL(p) == [id |-> p.ID, key |-> p.EditKey]
NoURL == [id |-> <<>>, key |-> NoKey]

(* the page: the data the handler passes and the view template writes out *)
ViewResp(p, code, lang, i, canEdit) ==
    [status |-> 200, id |-> p.ID, versions |-> p.Versions.len, body |-> code,
     lang |-> lang, vindex |-> i, editable |-> p.Editable, canEdit |-> canEdit,
     editURL |-> IF p.Editable THEN EditURL(p) ELSE NoURL]

handleView_Get(c, id) ==
    /\ pc[c] = "idle"
    /\ LET g == Get(items, id, now)
       IN IF ~g.ok
          THEN /\ Reply(Resp(404, id, 0, <<>>))
               /\ UNCHANGED <<now, items, heap, pc, loc, appended>>
          ELSE /\ pc' = [pc EXCEPT ![c] = "view"]
               /\ loc' = [loc EXCEPT ![c] = g.p]
               /\ Reply(NoResp)
               /\ UNCHANGED <<now, items, heap, appended>>

(* vParam: the query parameter v; au: the key and the cookie of the request;     *)
(* currVer: what the read of p.Versions[vIdx] gave                               *)
handleView_Render(c, vParam, au, currVer) ==
    /\ pc[c] = "view"
    /\ LET p    == loc[c]
           code == GzipDecode(currVer.ZCode).s
       IN Reply(ViewResp(p, code, currVer.Lang, vIdx(vParam, p.Versions.len),
                         canEditPaste(au.key, au.cookie, p)))
    /\ pc' = [pc EXCEPT ![c] = "idle"]
    /\ loc' = [loc EXCEPT ![c] = NoPaste]
    /\ heap' = Collect(heap, items, loc')
    /\ UNCHANGED <<now, items, appended>>

(* ---- the clock and the janitor ---- *)
Tick ==
    /\ now < MaxTime
    /\ now' = now + 1
    /\ Reply(NoResp)
    /\ UNCHANGED <<items, heap, pc, loc, appended>>

(* a pass that also deletes the entries expiring at its very timestamp *)
Sweep_AtExpiry(its, t) ==
    [i \in Ids |-> IF its[i] # NoPaste /\ t >= its[i].ExpiresAt THEN NoPaste ELSE its[i]]

(* a pass that spares the entries expired for less than an hour *)
Sweep_Lazy(its, t) ==
    [i \in Ids |-> IF its[i] # NoPaste /\ t > its[i].ExpiresAt + Hour THEN NoPaste ELSE its[i]]

(* the loop of a pass: delete every entry with t.After(p.ExpiresAt) *)
Sweep(its, t) ==
    [i \in Ids |-> IF its[i] # NoPaste /\ t > its[i].ExpiresAt THEN NoPaste ELSE its[i]]

(* one tick of the janitor in one step: the receive from t.C and the whole pass, *)
(* with nothing running between its time.Now() and its Lock                      *)
janitor ==
    /\ items' = Sweep(items, now)
    /\ heap' = Collect(heap, items', loc)
    /\ Reply(NoResp)
    /\ UNCHANGED <<now, pc, loc, appended>>

(* ---- the janitor goroutine, its ticker, and Store.Close ---- *)
(* a ticker that t.Stop() does not stop *)
tickerFire_NeverStopped ==
    /\ ~tick
    /\ tick' = TRUE
    /\ Reply(NoResp)
    /\ UNCHANGED <<now, items, heap, pc, loc, appended, unswept, util, gotAt, locks, jpc, jnow, quit>>

(* the runtime's ticker puts a tick into t.C, which holds one, until t.Stop() *)
tickerFire ==
    /\ jpc # "done"
    /\ ~tick
    /\ tick' = TRUE
    /\ Reply(NoResp)
    /\ UNCHANGED <<now, items, heap, pc, loc, appended, unswept, util, gotAt, locks, jpc, jnow, quit>>

(* a janitor that read the clock once, when it started *)
janitor_Recv_StaleNow ==
    /\ jpc = "select"
    /\ tick
    /\ tick' = FALSE
    /\ jnow' = 0
    /\ jpc' = "pass"
    /\ Reply(NoResp)
    /\ UNCHANGED <<now, items, heap, pc, loc, appended, unswept, util, gotAt, locks, quit>>

(* select takes `case <-t.C` and the pass reads the clock *)
janitor_Recv ==
    /\ jpc = "select"
    /\ tick
    /\ tick' = FALSE
    /\ jnow' = now
    /\ jpc' = "pass"
    /\ Reply(NoResp)
    /\ UNCHANGED <<now, items, heap, pc, loc, appended, unswept, util, gotAt, locks, quit>>

(* the pass under s.mu.Lock(), with the clock reading it took *)
janitor_Pass ==
    /\ jpc = "pass"
    /\ items' = Sweep(items, jnow)
    /\ heap' = Collect(heap, items', loc)
    /\ jpc' = "select"
    /\ jnow' = 0
    /\ Reply(NoResp)
    /\ UNCHANGED <<now, pc, loc, appended, unswept, util, gotAt, locks, quit, tick>>

(* select takes `case <-s.quitCh`: return, and the deferred t.Stop() *)
janitor_Quit ==
    /\ jpc = "select"
    /\ quit
    /\ jpc' = "done"
    /\ Reply(NoResp)
    /\ UNCHANGED <<now, items, heap, pc, loc, appended, unswept, util, gotAt, locks, jnow, quit, tick>>

(* Store.Close: close(s.quitCh) *)
Close ==
    /\ ~quit
    /\ quit' = TRUE
    /\ Reply(NoResp)
    /\ UNCHANGED <<now, items, heap, pc, loc, appended, unswept, util, gotAt, locks, jpc, jnow, tick>>

(* every stored paste has fewer than n versions: bounds the history Next builds *)
Room(n) ==
    \A i \in Ids : IF items[i] = NoPaste THEN TRUE ELSE items[i].Versions.len < n

Next ==
    \/ \E c \in Browsers, r \in CreateForms, id \in NewID(8), key \in NewID(12) :
          handleCreate(c, r, id, key)
          /\ UNCHANGED <<unswept, sweeper, util, gotAt, locks>>
    \/ \E c \in Scripts, r \in CreateJSON, id \in NewID(8), key \in NewID(12) :
          handleAPIPaste(c, r, id, key)
          /\ UNCHANGED <<unswept, sweeper, util, gotAt, locks>>
    \/ \E c \in Browsers, id \in Ids, au \in AuthInputs :
          Room(MaxVersions) /\ handleEditSave_Get(c, id, au)
          /\ UNCHANGED <<unswept, sweeper, util, gotAt, locks>>
    \/ \E c \in Browsers, b \in EditBodies : handleEditSave_Append(c, now, b)
          /\ UNCHANGED <<unswept, sweeper, util, gotAt, locks>>
    \/ \E c \in Browsers : handleEditSave_Put(c)
          /\ UNCHANGED <<unswept, sweeper, util, gotAt, locks>>
    \/ \E c \in Scripts, id \in Ids, key \in KeyInputs :
          Room(MaxVersions) /\ handleAPIEdit_Get(c, id, key)
          /\ UNCHANGED <<unswept, sweeper, util, gotAt, locks>>
    \/ \E c \in Scripts, b \in EditBodies : handleAPIEdit_Append(c, now, b)
          /\ UNCHANGED <<unswept, sweeper, util, gotAt, locks>>
    \/ \E c \in Scripts : handleAPIEdit_Put(c)
          /\ UNCHANGED <<unswept, sweeper, util, gotAt, locks>>
    \/ \E c \in Scripts, id \in Ids : handleRaw_Get(c, id)
          /\ UNCHANGED <<unswept, sweeper, util, gotAt, locks>>
    \/ \E c \in Scripts : \E v \in Load(c) : handleRaw_Write(c, v)
          /\ UNCHANGED <<unswept, sweeper, util, gotAt, locks>>
    \/ Tick
          /\ UNCHANGED <<unswept, sweeper, util, gotAt, locks>>
    \/ janitor
          /\ UNCHANGED <<unswept, sweeper, util, gotAt, locks>>

Spec == Init /\ [][Next]_vars

(* edits and reads racing within one reading of the clock, on longer histories *)
NextRace ==
    \/ \E c \in Browsers, r \in CreateForms, id \in NewID(8), key \in NewID(12) :
          handleCreate(c, r, id, key)
          /\ UNCHANGED <<unswept, sweeper, util, gotAt, locks>>
    \/ \E c \in Browsers, id \in Ids, au \in AuthInputs :
          Room(DeepVersions) /\ handleEditSave_Get(c, id, au)
          /\ UNCHANGED <<unswept, sweeper, util, gotAt, locks>>
    \/ \E c \in Browsers, b \in EditBodies : handleEditSave_Append(c, now, b)
          /\ UNCHANGED <<unswept, sweeper, util, gotAt, locks>>
    \/ \E c \in Browsers : handleEditSave_Put(c)
          /\ UNCHANGED <<unswept, sweeper, util, gotAt, locks>>
    \/ \E c \in Scripts, id \in Ids, key \in KeyInputs :
          Room(DeepVersions) /\ handleAPIEdit_Get(c, id, key)
          /\ UNCHANGED <<unswept, sweeper, util, gotAt, locks>>
    \/ \E c \in Scripts, b \in EditBodies : handleAPIEdit_Append(c, now, b)
          /\ UNCHANGED <<unswept, sweeper, util, gotAt, locks>>
    \/ \E c \in Scripts : handleAPIEdit_Put(c)
          /\ UNCHANGED <<unswept, sweeper, util, gotAt, locks>>
    \/ \E c \in Scripts, id \in Ids : handleRaw_Get(c, id)
          /\ UNCHANGED <<unswept, sweeper, util, gotAt, locks>>
    \/ \E c \in Scripts : \E v \in Load(c) : handleRaw_Write(c, v)
          /\ UNCHANGED <<unswept, sweeper, util, gotAt, locks>>
    \/ \E c \in Browsers, id \in Ids : handleView_Get(c, id)
          /\ UNCHANGED <<unswept, sweeper, util, gotAt, locks>>
    \/ \E c \in Browsers, vParam \in VParams, au \in AuthInputs :
          \E currVer \in LoadAt(c, vIdx(vParam, loc[c].Versions.len)) :
             handleView_Render(c, vParam, au, currVer)
          /\ UNCHANGED <<unswept, sweeper, util, gotAt, locks>>

SpecRace == Init /\ [][NextRace]_vars

(* ---- the same requests against the store no pass has swept ---- *)
(* unswept takes every Put that items takes and no deletion of the janitor *)
NextSweep ==
    \/ \E c \in Browsers, r \in CreateForms, id \in NewID(8), key \in NewID(12) :
          /\ handleCreate(c, r, id, key)
          /\ unswept' = IF resp'.status = 303 THEN Put(unswept, items'[id]) ELSE unswept
          /\ UNCHANGED <<sweeper, util, gotAt, locks>>
    \/ \E c \in Scripts, r \in CreateJSON, id \in NewID(8), key \in NewID(12) :
          /\ handleAPIPaste(c, r, id, key)
          /\ unswept' = IF resp'.status = 200 THEN Put(unswept, items'[id]) ELSE unswept
          /\ UNCHANGED <<sweeper, util, gotAt, locks>>
    \/ \E c \in Browsers, id \in Ids, au \in AuthInputs :
          /\ Room(MaxVersions) /\ handleEditSave_Get(c, id, au)
          /\ UNCHANGED <<unswept, sweeper, util, gotAt, locks>>
    \/ \E c \in Browsers :
          /\ \E b \in EditBodies : handleEditSave_Append(c, now, b)
          /\ UNCHANGED <<unswept, sweeper, util, gotAt, locks>>
    \/ \E c \in Browsers :
          /\ handleEditSave_Put(c)
          /\ unswept' = Put(unswept, loc[c])
          /\ UNCHANGED <<sweeper, util, gotAt, locks>>
    \/ \E c \in Scripts, id \in Ids :
          /\ handleRaw_Get(c, id)
          /\ UNCHANGED <<unswept, sweeper, util, gotAt, locks>>
    \/ \E c \in Scripts :
          /\ \E v \in Load(c) : handleRaw_Write(c, v)
          /\ UNCHANGED <<unswept, sweeper, util, gotAt, locks>>
    \/ \E c \in Browsers :
          /\ handleIndex(c)
          /\ UNCHANGED <<unswept, sweeper, util, gotAt, locks>>
    \/ Tick /\ UNCHANGED <<unswept, sweeper, util, gotAt, locks>>
    \/ janitor /\ UNCHANGED <<unswept, sweeper, util, gotAt, locks>>

SpecSweep == Init /\ [][NextSweep]_vars

(* ---- form requests and the clock beside the janitor goroutine ---- *)
NextJanitor ==
    \/ \E c \in Browsers, r \in CreateForms, id \in NewID(8), key \in NewID(12) :
          /\ handleCreate(c, r, id, key)
          /\ unswept' = IF resp'.status = 303 THEN Put(unswept, items'[id]) ELSE unswept
          /\ UNCHANGED <<sweeper, util, gotAt, locks>>
    \/ \E c \in Browsers, id \in Ids, au \in AuthInputs :
          /\ Room(MaxVersions) /\ handleEditSave_Get(c, id, au)
          /\ UNCHANGED <<unswept, sweeper, util, gotAt, locks>>
    \/ \E c \in Browsers :
          /\ \E b \in EditBodies : handleEditSave_Append(c, now, b)
          /\ UNCHANGED <<unswept, sweeper, util, gotAt, locks>>
    \/ \E c \in Browsers :
          /\ handleEditSave_Put(c)
          /\ unswept' = Put(unswept, loc[c])
          /\ UNCHANGED <<sweeper, util, gotAt, locks>>
    \/ Tick /\ UNCHANGED <<unswept, sweeper, util, gotAt, locks>>
    \/ tickerFire
    \/ janitor_Recv
    \/ janitor_Pass
    \/ janitor_Quit
    \/ Close

(* the ticker keeps ticking until it is stopped, the goroutine is scheduled, and *)
(* select, choosing at random among the ready cases, takes quitCh in the end     *)
SpecJanitor ==
    /\ Init
    /\ [][NextJanitor]_vars
    /\ WF_vars(tickerFire)
    /\ WF_vars(janitor_Recv)
    /\ WF_vars(janitor_Pass)
    /\ SF_vars(janitor_Quit)

(* ---- the edit handlers with their reading of the clock ---- *)
ClockVersions == 5
ClockTime == 1

(* An edit handler reads the clock once, `now := time.Now()`, after its Get has *)
(* returned and before it appends: the reading lies between the hour of the Get *)
(* and the hour of the append.                                                  *)
Readings(c) == gotAt[c]..now

(* NewID gives an identifier that is not in use *)
Fresh(id) == items[id] = NoPaste

NextClock ==
    \/ \E c \in Browsers, r \in CreateForms, id \in NewID(8), key \in NewID(12) :
          /\ Fresh(id) /\ handleCreate(c, r, id, key)
          /\ UNCHANGED <<unswept, sweeper, util, gotAt, locks>>
    \/ \E c \in Browsers, id \in Ids, au \in AuthInputs :
          /\ Room(ClockVersions) /\ handleEditSave_Get(c, id, au)
          /\ gotAt' = [gotAt EXCEPT ![c] = IF pc'[c] = "save" THEN now ELSE 0]
          /\ UNCHANGED <<unswept, sweeper, util, locks>>
    \/ \E c \in Browsers :
          /\ \E t \in Readings(c), b \in EditBodies : handleEditSave_Append(c, t, b)
          /\ UNCHANGED <<unswept, sweeper, util, gotAt, locks>>
    \/ \E c \in Browsers :
          /\ handleEditSave_Put(c)
          /\ gotAt' = [gotAt EXCEPT ![c] = 0]
          /\ UNCHANGED <<unswept, sweeper, util, locks>>
    \/ \E c \in Scripts, id \in Ids, key \in KeyInputs :
          /\ Room(ClockVersions) /\ handleAPIEdit_Get(c, id, key)
          /\ gotAt' = [gotAt EXCEPT ![c] = IF pc'[c] = "api" THEN now ELSE 0]
          /\ UNCHANGED <<unswept, sweeper, util, locks>>
    \/ \E c \in Scripts :
          /\ \E t \in Readings(c), b \in EditBodies : handleAPIEdit_Append(c, t, b)
          /\ UNCHANGED <<unswept, sweeper, util, gotAt, locks>>
    \/ \E c \in Scripts :
          /\ handleAPIEdit_Put(c)
          /\ gotAt' = [gotAt EXCEPT ![c] = 0]
          /\ UNCHANGED <<unswept, sweeper, util, locks>>
    \/ now < ClockTime /\ Tick /\ UNCHANGED <<unswept, sweeper, util, gotAt, locks>>

SpecClock == Init /\ [][NextClock]_vars

(* ---- edits alone, racing on long histories: append has grown the backing  ---- *)
(* ---- array to eight elements, so that two appends in a row fit in place     ---- *)
NextHistory ==
    \/ \E c \in Browsers, r \in CreateForms, id \in NewID(8), key \in NewID(12) :
          /\ Fresh(id) /\ handleCreate(c, r, id, key)
          /\ UNCHANGED <<unswept, sweeper, util, gotAt, locks>>
    \/ \E c \in Browsers, id \in Ids, au \in AuthInputs :
          /\ Room(LongVersions) /\ handleEditSave_Get(c, id, au)
          /\ UNCHANGED <<unswept, sweeper, util, gotAt, locks>>
    \/ \E c \in Browsers, b \in EditBodies : handleEditSave_Append(c, now, b)
          /\ UNCHANGED <<unswept, sweeper, util, gotAt, locks>>
    \/ \E c \in Browsers : handleEditSave_Put(c)
          /\ UNCHANGED <<unswept, sweeper, util, gotAt, locks>>
    \/ \E c \in Scripts, id \in Ids, key \in KeyInputs :
          /\ Room(LongVersions) /\ handleAPIEdit_Get(c, id, key)
          /\ UNCHANGED <<unswept, sweeper, util, gotAt, locks>>
    \/ \E c \in Scripts, b \in EditBodies : handleAPIEdit_Append(c, now, b)
          /\ UNCHANGED <<unswept, sweeper, util, gotAt, locks>>
    \/ \E c \in Scripts : handleAPIEdit_Put(c)
          /\ UNCHANGED <<unswept, sweeper, util, gotAt, locks>>

SpecHistory == Init /\ [][NextHistory]_vars

(* ---- create requests with every TTL string, and what reads and the ---- *)
(* ---- janitor make of the pastes they store                          ---- *)
(* the vocabulary, durations that are zero or negative, and strings that    *)
(* denote no duration                                                      *)
TTLInputs ==
    { <<>>, <<"1", "h">>, <<"24", "h">>, <<"7", "d">>, <<"0">>, <<"0", "h">>,
      <<"-", "0">>, <<"-", "1", "h">>, <<"-", "24", "h">>, <<"1", "d">>, <<"x">>, <<"-">> }

TTLJSON ==
    { FormReq(<<"b">>, <<"go">>, s, <<"light">>, FALSE, <<>>, NoCookie) : s \in TTLInputs }

TTLForms ==
    { FormReq(<<"a">>, <<"go">>, <<" ">> \o s \o <<" ">>, <<"light">>, <<"on">>, <<>>, NoCookie) :
         s \in TTLInputs }

NextTTL ==
    \/ \E c \in Browsers, r \in TTLForms, id \in NewID(8), key \in NewID(12) :
          handleCreate(c, r, id, key)
          /\ UNCHANGED <<unswept, sweeper, util, gotAt, locks>>
    \/ \E c \in Scripts, r \in TTLJSON, id \in NewID(8), key \in NewID(12) :
          handleAPIPaste(c, r, id, key)
          /\ UNCHANGED <<unswept, sweeper, util, gotAt, locks>>
    \/ \E c \in Scripts, id \in Ids : handleRaw_Get(c, id)
          /\ UNCHANGED <<unswept, sweeper, util, gotAt, locks>>
    \/ \E c \in Scripts : \E v \in Load(c) : handleRaw_Write(c, v)
          /\ UNCHANGED <<unswept, sweeper, util, gotAt, locks>>
    \/ Tick /\ UNCHANGED <<unswept, sweeper, util, gotAt, locks>>
    \/ janitor /\ UNCHANGED <<unswept, sweeper, util, gotAt, locks>>

SpecTTL == Init /\ [][NextTTL]_vars

(* ---- the methods of Store, lock by lock ---- *)
At(m, at) == [m |-> m, at |-> at]

(* goroutines blocked in s.mu.Lock(): RLock lets no new reader pass them; the    *)
(* janitor is at its Lock from its `now := time.Now()` on                       *)
WritersWaiting ==
    {c \in Clients : lk[c].at = "Lock"} \cup (IF jpc = "pass" THEN {Janitor} ELSE {})

(* goroutines blocked in s.mu.RLock() *)
ReadersWaiting == {c \in Clients : lk[c].at = "RLock"}

(* a handler calls method m of Store and comes to its s.mu.RLock() or s.mu.Lock() *)
Store_Call(c, m) ==
    /\ lk[c] = NoCall
    /\ lk' = [lk EXCEPT ![c] = At(m, IF m = "Put" THEN "Lock" ELSE "RLock")]
    /\ Reply(NoResp)
    /\ UNCHANGED <<now, items, heap, pc, loc, appended, unswept, sweeper, util, gotAt, mu>>

(* s.mu.RLock() returns: no writer holds the lock and none waits for it *)
RLock(c) ==
    /\ lk[c].at = "RLock"
    /\ mu.w = NoOne
    /\ WritersWaiting = {}
    /\ mu' = [mu EXCEPT !.readers = @ \cup {c}]
    /\ lk' = [lk EXCEPT ![c].at = "RUnlock"]
    /\ Reply(NoResp)
    /\ UNCHANGED <<now, items, heap, pc, loc, appended, unswept, sweeper, util, gotAt>>

(* s.mu.Lock() returns: no writer and no reader holds the lock *)
Lock(c) ==
    /\ lk[c].at = "Lock"
    /\ mu.w = NoOne
    /\ mu.readers = {}
    /\ mu' = [mu EXCEPT !.w = c]
    /\ lk' = [lk EXCEPT ![c].at = "Unlock"]
    /\ Reply(NoResp)
    /\ UNCHANGED <<now, items, heap, pc, loc, appended, unswept, sweeper, util, gotAt>>

(* a method that returns without its s.mu.RUnlock() *)
RUnlock_Missing(c, m) ==
    /\ lk[c] = At(m, "RUnlock")
    /\ mu' = mu
    /\ lk' = [lk EXCEPT ![c] = NoCall]

(* s.mu.RUnlock(), and method m returns *)
RUnlock(c, m) ==
    /\ lk[c] = At(m, "RUnlock")
    /\ mu' = [mu EXCEPT !.readers = @ \ {c}]
    /\ lk' = [lk EXCEPT ![c] = NoCall]

(* s.mu.Unlock() lets in, together, the readers blocked in RLock *)
Released == [w |-> NoOne, readers |-> ReadersWaiting]

Admitted(g) ==
    [d \in Clients |->
        IF d = g THEN NoCall
        ELSE IF lk[d].at = "RLock" THEN [lk[d] EXCEPT !.at = "RUnlock"]
        ELSE lk[d]]

(* s.mu.Unlock(), and Put returns *)
Unlock(c) ==
    /\ lk[c] = At("Put", "Unlock")
    /\ mu' = Released
    /\ lk' = Admitted(c)

(* Store.Get under the lock, called by handleRaw *)
Get_Raw(c) ==
    /\ RUnlock(c, "Get")
    /\ \E id \in Ids : handleRaw_Get(c, id)
    /\ UNCHANGED <<unswept, sweeper, util, gotAt>>

(* Store.Get under the lock, called by handleEditSave *)
Get_EditSave(c) ==
    /\ RUnlock(c, "Get")
    /\ \E id \in Ids, au \in AuthInputs : handleEditSave_Get(c, id, au)
    /\ UNCHANGED <<unswept, sweeper, util, gotAt>>

(* Store.CountActive under the lock, called by handleIndex *)
CountActive_Index(c) ==
    /\ RUnlock(c, "CountActive")
    /\ handleIndex(c)
    /\ UNCHANGED <<unswept, sweeper, util, gotAt>>

(* Store.Put under the lock, called by handleCreate with the paste it has built *)
Put_Create(c) ==
    /\ Unlock(c)
    /\ \E r \in CreateForms, id \in NewID(8), key \in NewID(12) :
          handleCreate(c, r, id, key) /\ resp'.status = 303
    /\ UNCHANGED <<unswept, sweeper, util, gotAt>>

(* Store.Put under the lock, called by handleEditSave *)
Put_EditSave(c) ==
    /\ Unlock(c)
    /\ handleEditSave_Put(c)
    /\ UNCHANGED <<unswept, sweeper, util, gotAt>>

(* the method the goroutine of client c is in returns *)
Store_Return(c) ==
    \/ c \in Scripts /\ Get_Raw(c)
    \/ c \in Browsers /\ Get_EditSave(c)
    \/ c \in Browsers /\ CountActive_Index(c)
    \/ c \in Browsers /\ Put_Create(c)
    \/ c \in Browsers /\ Put_EditSave(c)

(* the janitor's s.mu.Lock() returns *)
janitor_Lock ==
    /\ jpc = "pass"
    /\ mu.w = NoOne
    /\ mu.readers = {}
    /\ mu' = [mu EXCEPT !.w = Janitor]
    /\ jpc' = "sweep"
    /\ Reply(NoResp)
    /\ UNCHANGED <<now, items, heap, pc, loc, appended, unswept, util, gotAt, lk, jnow, quit, tick>>

(* the janitor's loop over s.items and its s.mu.Unlock() *)
janitor_Unlock ==
    /\ jpc = "sweep"
    /\ items' = Sweep(items, jnow)
    /\ heap' = Collect(heap, items', loc)
    /\ mu' = Released
    /\ lk' = Admitted(Janitor)
    /\ jpc' = "select"
    /\ jnow' = 0
    /\ Reply(NoResp)
    /\ UNCHANGED <<now, pc, loc, appended, unswept, util, gotAt, quit, tick>>

(* the requests and the janitor within one hour of the clock *)
NextLock ==
    \/ \E c \in Scripts : pc[c] = "idle" /\ Store_Call(c, "Get")
    \/ \E c \in Browsers : pc[c] = "idle" /\ Room(MaxVersions) /\ Store_Call(c, "Get")
    \/ \E c \in Browsers : pc[c] = "idle" /\ Store_Call(c, "CountActive")
    \/ \E c \in Browsers : pc[c] \in {"idle", "savePut"} /\ Store_Call(c, "Put")
    \/ \E c \in Clients : RLock(c)
    \/ \E c \in Clients : Lock(c)
    \/ \E c \in Clients : Store_Return(c)
    \/ \E c \in Browsers :
          /\ lk[c] = NoCall
          /\ \E b \in EditBodies : handleEditSave_Append(c, now, b)
          /\ UNCHANGED <<unswept, sweeper, util, gotAt, locks>>
    \/ \E c \in Scripts :
          /\ \E v \in Load(c) : handleRaw_Write(c, v)
          /\ UNCHANGED <<unswept, sweeper, util, gotAt, locks>>
    \/ tickerFire
    \/ janitor_Recv
    \/ janitor_Lock
    \/ janitor_Unlock

(* a goroutine that can run does run; sync.Mutex hands the lock to a writer that *)
(* has waited (starvation mode), so a writer that can take the lock again and    *)
(* again does take it                                                            *)
SpecLock ==
    /\ Init
    /\ [][NextLock]_vars
    /\ \A c \in Clients : WF_vars(RLock(c))
    /\ \A c \in Clients : SF_vars(Lock(c))
    /\ \A c \in Clients : WF_vars(Store_Return(c))
    /\ SF_vars(janitor_Lock)
    /\ WF_vars(janitor_Unlock)

(* ---- the functions of internal/util, called on their own ---- *)
(* util.NewID(n), with what its rand.Read and its clock give *)
NewIDCalls ==
    UNION { { [fn |-> "NewID", n |-> n, rd |-> rd, t |-> t] :
                rd \in RandRead(n), t \in WallClocks } : n \in IdLens }

(* the two calls of buildPaste for an editable paste: id := util.NewID(8) and *)
(* p.EditKey = util.NewID(12)                                                *)
buildPasteCalls ==
    { [fn |-> "buildPaste", rd |-> rd, t |-> t, rk |-> rk, u |-> u] :
        rd \in RandRead(8), t \in WallClocks, rk \in RandRead(12), u \in WallClocks }

(* util.GzipDecode(util.GzipEncode(s)) *)
GzipCalls == { [fn |-> "Gzip", s |-> s] : s \in Contents }

(* util.ParseTTL(s) *)
ParseTTLCalls == { [fn |-> "ParseTTL", s |-> s] : s \in TTLStrings }

Calls == NewIDCalls \cup buildPasteCalls \cup GzipCalls \cup ParseTTLCalls

(* a call is about to be made; the server has just started *)
InitUtil ==
    /\ now = 0
    /\ items = [i \in Ids |-> NoPaste]
    /\ heap = [a \in ArrIds |-> <<>>]
    /\ pc = [c \in Clients |-> "idle"]
    /\ loc = [c \in Clients |-> NoPaste]
    /\ resp = NoResp
    /\ appended = [c \in Clients |-> FALSE]
    /\ unswept = [i \in Ids |-> NoPaste]
    /\ jpc = "select"
    /\ jnow = 0
    /\ quit = FALSE
    /\ tick = FALSE
    /\ call \in Calls
    /\ ret = [fn |-> "none"]
    /\ gotAt = [c \in Clients |-> 0]
    /\ mu = Unlocked
    /\ lk = [c \in Clients |-> NoCall]

callNewID ==
    /\ call.fn = "NewID"
    /\ ret.fn = "none"
    /\ ret' = [fn |-> "NewID", s |-> NewIDWith(call.n, call.rd, call.t)]
    /\ UNCHANGED <<call, server>>

callNewIDs ==
    /\ call.fn = "buildPaste"
    /\ ret.fn = "none"
    /\ ret' = [fn |-> "buildPaste", ID |-> NewIDWith(8, call.rd, call.t),
                EditKey |-> NewIDWith(12, call.rk, call.u)]
    /\ UNCHANGED <<call, server>>

callGzip ==
    /\ call.fn = "Gzip"
    /\ ret.fn = "none"
    /\ ret' = [fn |-> "Gzip", z |-> GzipEncode(call.s),
                out |-> GzipDecode(GzipEncode(call.s))]
    /\ UNCHANGED <<call, server>>

callParseTTL ==
    /\ call.fn = "ParseTTL"
    /\ ret.fn = "none"
    /\ ret' = [fn |-> "ParseTTL", out |-> ParseTTL(call.s)]
    /\ UNCHANGED <<call, server>>

NextUtil ==
    \/ callNewID
    \/ callNewIDs
    \/ callGzip
    \/ callParseTTL

SpecUtil == InitUtil /\ [][NextUtil]_vars

(* ---- steps, as seen from outside ---- *)
EditPhases == {"save", "savePut", "api", "apiPut"}
PutPhases == {"savePut", "apiPut"}

(* client c's edit handler calls Store.Put in this step *)
PutStep(c) == pc[c] \in PutPhases /\ pc'[c] = "idle"

(* client c's edit handler passes from its access check to its append *)
AppendStep(c) == pc[c] \in {"save", "api"} /\ pc'[c] \in PutPhases

Stored(id) == Elems(heap, items[id].Versions)
StoredNext(id) == Elems(heap', items'[id].Versions)

IsPrefix(s, t) == Len(s) <= Len(t) /\ SubSeq(t, 1, Len(s)) = s

(* C1, as claimed: a Get of a stored paste returns it at every now < ExpiresAt   *)
(* and answers not-found at every now >= ExpiresAt, now = ExpiresAt included.    *)
C1_ExpiryAtOrAfter ==
    [][\A c \in Scripts, id \in Ids :
          (handleRaw_Get(c, id) /\ items[id] # NoPaste) =>
              IF now < items[id].ExpiresAt
              THEN pc'[c] = "raw" /\ loc'[c] = items[id]
              ELSE pc'[c] = "idle" /\ resp'.status = 404]_vars

(* C1, amended: a Get returns the stored paste at every now <= ExpiresAt and     *)
(* answers not-found at every now > ExpiresAt and for an identifier not in the   *)
(* container; the janitor removes no paste at a time now <= ExpiresAt, so the    *)
(* answer is the same whether or not it has run.                                 *)
C1_ExpiryStrictlyAfter ==
    [][/\ \A c \in Scripts, id \in Ids :
            handleRaw_Get(c, id) =>
                IF items[id] # NoPaste /\ now <= items[id].ExpiresAt
                THEN pc'[c] = "raw" /\ loc'[c] = items[id]
                ELSE pc'[c] = "idle" /\ resp'.status = 404
       /\ \A id \in Ids :
            (items[id] # NoPaste /\ items'[id] = NoPaste) => now > items[id].ExpiresAt]_vars

(* a Get at the very hour of expiry returned the paste: it was written back at   *)
(* that hour and a reader holds it                                              *)
C1_Witness ==
    \E c \in Clients :
        /\ pc[c] = "raw"
        /\ loc[c].ExpiresAt = now
        /\ loc[c].UpdatedAt = now
        /\ loc[c].CreatedAt < now

(* C2, as claimed: of two concurrent edits of one paste that each appended a     *)
(* version to the one version they read, neither append is dropped: when the     *)
(* second writes back over the first, the stored paste has 3 versions.           *)
C2_BothAppendsKept ==
    [][\A c \in Clients :
          (/\ PutStep(c)
           /\ appended[c]
           /\ loc[c].Versions.len = 2
           /\ items[loc[c].ID] # NoPaste
           /\ items[loc[c].ID].Versions.len = 2
           /\ Stored(loc[c].ID)[1] = Elems(heap, loc[c].Versions)[1])
              => items'[loc[c].ID].Versions.len = 3]_vars

(* C3, as claimed: the versions of the stored paste change only when the entry   *)
(* is replaced by a Put; appending to a copy returned by Get leaves them alone.  *)
C3_StoredChangesOnlyByPut ==
    [][\A id \in Ids :
          (items[id] # NoPaste /\ items'[id] = items[id]) => StoredNext(id) = Stored(id)]_vars

(* C4, as claimed: when an edit replaces the stored paste, the version sequence  *)
(* stored before is a prefix of the one stored after.                           *)
C4_HistoryOnlyGrows ==
    [][\A c \in Clients :
          (PutStep(c) /\ items[loc[c].ID] # NoPaste)
              => IsPrefix(Stored(loc[c].ID), StoredNext(loc[c].ID))]_vars

(* C5, as claimed: the paste a reader got from Get does not change while the     *)
(* reader holds it.                                                             *)
C5_HeldValueStable ==
    [][\A c \in Clients :
          (pc[c] = "raw" /\ pc'[c] = "raw")
              => Elems(heap', loc'[c].Versions) = Elems(heap, loc[c].Versions)]_vars

(* C6: a stored paste that is not editable has an empty EditKey; no edit         *)
(* handler, whatever key or cookie it was sent, gets past its access check       *)
(* holding a paste that is not editable, so none is appended to or written back; *)
(* and an edit request, form or API, for a stored paste that is not editable is  *)
(* turned down and changes neither the store nor the versions.                   *)
C6_NonEditableImmutable ==
    /\ [](/\ \A id \in Ids :
               (items[id] # NoPaste /\ ~items[id].Editable) => items[id].EditKey = NoKey
          /\ \A c \in Clients :
               pc[c] \in EditPhases => (loc[c].Editable /\ loc[c].EditKey # NoKey))
    /\ [][/\ \A c \in Browsers, id \in Ids, au \in AuthInputs :
              (/\ handleEditSave_Get(c, id, au)
               /\ items[id] # NoPaste
               /\ ~items[id].Editable)
                  => (/\ resp'.status \in {403, 404}
                      /\ pc'[c] = "idle"
                      /\ items' = items
                      /\ heap' = heap)
          /\ \A c \in Scripts, id \in Ids, key \in KeyInputs :
              (/\ handleAPIEdit_Get(c, id, key)
               /\ items[id] # NoPaste
               /\ ~items[id].Editable)
                  => (/\ resp'.status \in {401, 403, 404}
                      /\ pc'[c] = "idle"
                      /\ items' = items
                      /\ heap' = heap)]_vars

(* an edit request for a stored paste that is not editable was answered 403 *)
C6_Witness ==
    /\ resp.status = 403
    /\ items[resp.id] # NoPaste
    /\ ~items[resp.id].Editable

(* C7: for a paste Get returns, the form handler's access check passes exactly   *)
(* when the paste is editable and the resolved token (the query key, or the      *)
(* cookie when the query key is empty) is non-empty and equals EditKey; the      *)
(* check changes neither the store nor the versions.                            *)
C7_CanEditExactly ==
    [][\A c \in Browsers, id \in Ids, au \in AuthInputs :
          (/\ handleEditSave_Get(c, id, au)
           /\ items[id] # NoPaste
           /\ now <= items[id].ExpiresAt)
              => LET tok == IF au.key = NoKey
                            THEN (IF au.cookie.set THEN au.cookie.value ELSE NoKey)
                            ELSE au.key
                 IN /\ (pc'[c] = "save") <=>
                           (items[id].Editable /\ tok # NoKey /\ tok = items[id].EditKey)
                    /\ (pc'[c] # "save") => resp'.status = 403
                    /\ items' = items
                    /\ heap' = heap]_vars

(* the check has let a request through and has turned one down for an editable  *)
(* paste: one client is past it while the other was just answered 403           *)
C7_Witness ==
    /\ \E c \in Clients : pc[c] = "save"
    /\ resp.status = 403
    /\ items[resp.id] # NoPaste
    /\ items[resp.id].Editable

(* C8, as claimed: an edit of an absent or expired paste is answered not-found   *)
(* and changes nothing, and a write-back after ExpiresAt leaves the store as it  *)
(* was.                                                                         *)
C8_NoEditOfExpired ==
    [][/\ \A c \in Browsers, id \in Ids, au \in AuthInputs :
            (handleEditSave_Get(c, id, au) /\ ~Get(items, id, now).ok)
                => (resp'.status = 404 /\ pc'[c] = "idle" /\ items' = items /\ heap' = heap)
       /\ \A c \in Scripts, id \in Ids, key \in KeyInputs :
            (handleAPIEdit_Get(c, id, key) /\ ~Get(items, id, now).ok)
                => (resp'.status = 404 /\ pc'[c] = "idle" /\ items' = items /\ heap' = heap)
       /\ \A c \in Clients :
            (PutStep(c) /\ now > loc[c].ExpiresAt) => items' = items]_vars

(* C9, as claimed: an identifier that is not in the container comes back only    *)
(* by a create, never by the write-back of an edit.                             *)
C9_RemovedStaysRemoved ==
    [][\A id \in Ids :
          (items[id] = NoPaste /\ items'[id] # NoPaste) => ~(\E c \in Clients : PutStep(c))]_vars

(* C10: an edit handler holds a copy of the stored paste, changes none of ID,    *)
(* Theme, ExpiresAt, Editable, EditKey, CreatedAt in it, and its Put stores that *)
(* copy under its own ID and touches no other entry.                            *)
Frame(p) == <<p.ID, p.Theme, p.ExpiresAt, p.Editable, p.EditKey, p.CreatedAt>>

C10_EditKeepsFrame ==
    [][\A c \in Clients :
          /\ (pc[c] = "idle" /\ pc'[c] \in {"save", "api"}) => loc'[c] = items[loc'[c].ID]
          /\ AppendStep(c) => Frame(loc'[c]) = Frame(loc[c])
          /\ PutStep(c) => items' = [items EXCEPT ![loc[c].ID] = loc[c]]]_vars

(* an edit made in a later hour than the create was written back, and the        *)
(* stored paste still expires one hour after its creation                        *)
C10_Witness ==
    /\ resp.status \in {200, 303}
    /\ resp.versions >= 1
    /\ items[resp.id] # NoPaste
    /\ items[resp.id].UpdatedAt > items[resp.id].CreatedAt
    /\ items[resp.id].ExpiresAt = items[resp.id].CreatedAt + 1

(* C11: every paste in the container, live or expired and not yet swept, has at  *)
(* least one version, and so has the copy every edit or raw handler holds: the   *)
(* index len(p.Versions)-1 of its last version is in range.                      *)
C11_VersionsNonEmpty ==
    /\ \A id \in Ids :
          items[id] # NoPaste =>
              (/\ items[id].Versions.len >= 1
               /\ items[id].Versions.len <= Len(heap[items[id].Versions.arr]))
    /\ \A c \in Clients :
          loc[c] # NoPaste =>
              (/\ loc[c].Versions.len >= 1
               /\ loc[c].Versions.len <= Len(heap[loc[c].Versions.arr]))

(* an edited paste with two versions is past its expiry and still in the         *)
(* container                                                                     *)
C11_Witness ==
    \E id \in Ids :
        /\ items[id] # NoPaste
        /\ now > items[id].ExpiresAt
        /\ items[id].Versions.len = 2

(* C12, as claimed: the write-back of an authorised edit that found its content  *)
(* and language equal to those of the last version, and so appended nothing,     *)
(* leaves the number of versions of the stored live paste unchanged.             *)
C12_NoOpEditKeepsCount ==
    [][\A c \in Clients :
          (/\ PutStep(c)
           /\ ~appended[c]
           /\ items[loc[c].ID] # NoPaste
           /\ now <= items[loc[c].ID].ExpiresAt)
              => items'[loc[c].ID].Versions.len = items[loc[c].ID].Versions.len]_vars

(* C13, as claimed: the write-back of an authorised edit that appended a version *)
(* raises the number of versions of the stored live paste by exactly one, the    *)
(* count in the response is the stored count, and the stored last version is the *)
(* one appended.                                                                 *)
C13_EditAddsOneVersion ==
    [][\A c \in Clients :
          (/\ PutStep(c)
           /\ appended[c]
           /\ items[loc[c].ID] # NoPaste
           /\ now <= items[loc[c].ID].ExpiresAt)
              => (/\ items'[loc[c].ID].Versions.len = items[loc[c].ID].Versions.len + 1
                  /\ resp'.versions = items'[loc[c].ID].Versions.len
                  /\ GzipDecode(StoredNext(loc[c].ID)[resp'.versions].ZCode).s = loc[c].Code)]_vars

(* C14: a create request that is accepted, form or API, stores under the         *)
(* identifier it answers with a paste of exactly one version holding the trimmed *)
(* content; its EditKey is empty exactly when the request was not editable; and  *)
(* a Get of that identifier right after, at a time not after ExpiresAt, returns  *)
(* that paste.                                                                   *)
C14_CreateStoresOneVersion ==
    [][/\ \A c \in Browsers, r \in CreateForms, id \in NewID(8), key \in NewID(12) :
            (handleCreate(c, r, id, key) /\ resp'.status = 303)
                => (/\ resp'.id = id
                    /\ items'[id] # NoPaste
                    /\ items'[id].ID = id
                    /\ items'[id].Versions.len = 1
                    /\ GzipDecode(StoredNext(id)[1].ZCode).s = TrimSpace(r.code)
                    /\ items'[id].Code = TrimSpace(r.code)
                    /\ (items'[id].EditKey = NoKey) <=> ~IsTruthy(r.editable)
                    /\ now <= items'[id].ExpiresAt
                          => Get(items', id, now) = [ok |-> TRUE, p |-> items'[id]])
       /\ \A c \in Scripts, r \in CreateJSON, id \in NewID(8), key \in NewID(12) :
            (handleAPIPaste(c, r, id, key) /\ resp'.status = 200)
                => (/\ resp'.id = id
                    /\ items'[id] # NoPaste
                    /\ items'[id].ID = id
                    /\ items'[id].Versions.len = 1
                    /\ GzipDecode(StoredNext(id)[1].ZCode).s = TrimSpace(r.code)
                    /\ items'[id].Code = TrimSpace(r.code)
                    /\ (items'[id].EditKey = NoKey) <=> ~r.editable
                    /\ now <= items'[id].ExpiresAt
                          => Get(items', id, now) = [ok |-> TRUE, p |-> items'[id]])]_vars

(* a form create was just accepted: the paste it stored is editable, has a key   *)
(* and one version, and Get returns it                                           *)
C14_Witness ==
    /\ resp.status = 303
    /\ resp.versions = 0
    /\ items[resp.id] # NoPaste
    /\ items[resp.id].Editable
    /\ items[resp.id].EditKey # NoKey
    /\ items[resp.id].Versions.len = 1
    /\ Get(items, resp.id, now).ok

(* C15: a create request, form or API, whose content is empty after trimming or  *)
(* whose TTL is neither in the vocabulary of ParseTTL nor a duration             *)
(* time.ParseDuration accepts is answered 400 and changes nothing: no paste is   *)
(* inserted and none is modified.                                                *)
C15_BadCreateRejected ==
    [][/\ \A c \in Browsers, r \in CreateForms, id \in NewID(8), key \in NewID(12) :
            (/\ handleCreate(c, r, id, key)
             /\ (TrimSpace(r.code) = <<>> \/ ~ParseTTL(TrimSpace(r.ttl)).ok))
                => (resp'.status = 400 /\ items' = items /\ heap' = heap)
       /\ \A c \in Scripts, r \in CreateJSON, id \in NewID(8), key \in NewID(12) :
            (/\ handleAPIPaste(c, r, id, key)
             /\ (TrimSpace(r.code) = <<>> \/ ~ParseTTL(r.ttl).ok))
                => (resp'.status = 400 /\ items' = items /\ heap' = heap)]_vars

(* a create request was just rejected while a paste is stored *)
C15_Witness ==
    /\ resp.status = 400
    /\ resp.id = <<>>
    /\ \E id \in Ids : items[id] # NoPaste

(* C16: at every point of every run of creates, edits, reads, clock advances and *)
(* janitor passes, a Get of any identifier gives the same result on the store    *)
(* the janitor has swept as on the store of the same run without any pass.       *)
C16_SweeperUnobservable ==
    \A id \in Ids : Get(items, id, now) = Get(unswept, id, now)

(* a read was just answered not-found for a paste the janitor has deleted and    *)
(* the unswept store still holds                                                 *)
C16_Witness ==
    /\ resp.status = 404
    /\ items[resp.id] = NoPaste
    /\ unswept[resp.id] # NoPaste

(* C17: a pass of the janitor deletes every entry whose ExpiresAt is before the  *)
(* clock reading the pass took, deletes no entry Get returns at that reading,    *)
(* inserts nothing, and leaves every entry it keeps, versions included, as it    *)
(* was.                                                                          *)
C17_PassRemovesExpiredOnly ==
    [][janitor_Pass =>
          \A id \in Ids :
              IF items[id] = NoPaste THEN items'[id] = NoPaste
              ELSE /\ items[id].ExpiresAt < jnow => items'[id] = NoPaste
                   /\ Get(items, id, jnow).ok => items'[id] = items[id]
                   /\ items'[id] # NoPaste =>
                          (items'[id] = items[id] /\ StoredNext(id) = Stored(id))]_vars

(* a pass has ended and has deleted a paste that was put into the store *)
C17_Witness ==
    /\ jpc = "select"
    /\ ~tick
    /\ \E id \in Ids : items[id] = NoPaste /\ unswept[id] # NoPaste

(* the container holds under id a paste whose ExpiresAt has passed *)
HoldsExpired(id) == items[id] # NoPaste /\ now > items[id].ExpiresAt

(* C18: as long as Close has not been called and the ticker keeps ticking, a     *)
(* paste in the container whose ExpiresAt has passed is eventually not in the    *)
(* container: whenever an identifier holds an expired paste, it later holds      *)
(* none (it is empty, or holds a paste created since, not yet expired).          *)
C18_ExpiredEventuallySwept ==
    \A id \in Ids : HoldsExpired(id) ~> (~HoldsExpired(id) \/ quit)

(* the janitor is back at its select, not shut down, after deleting a paste that *)
(* had two versions                                                              *)
C18_Witness ==
    /\ ~quit
    /\ jpc = "select"
    /\ \E id \in Ids :
          /\ items[id] = NoPaste
          /\ unswept[id] # NoPaste
          /\ unswept[id].Versions.len = 2
          /\ now > unswept[id].ExpiresAt

(* C19: once Close has been called the janitor goroutine eventually returns,     *)
(* and from then on it stays returned and its ticker delivers no tick.           *)
C19_JanitorExitsAfterClose ==
    /\ quit ~> (jpc = "done")
    /\ [][jpc = "done" => (jpc' = "done" /\ tick' = tick)]_vars

(* the janitor has returned after Close while an expired paste is in the store *)
C19_Witness ==
    /\ quit
    /\ jpc = "done"
    /\ \E id \in Ids : items[id] # NoPaste /\ now > items[id].ExpiresAt

(* C20, as claimed: once Close has returned, the janitor begins no pass.         *)
C20_NoPassAfterClose ==
    [][quit => ~(jpc = "select" /\ jpc' = "pass")]_vars

(* C21: the count the index page gets from CountActive is exactly the number of  *)
(* entries of the container whose ExpiresAt is strictly later than the time of   *)
(* the call; an expired entry the janitor has not removed yet is not counted,    *)
(* nor is one expiring at that very time; and the call leaves the container and  *)
(* the versions as they were.                                                    *)
C21_CountActiveExact ==
    [][\A c \in Browsers :
          handleIndex(c) =>
              (/\ resp'.count =
                     Cardinality({id \in Ids : items[id] # NoPaste /\ items[id].ExpiresAt > now})
               /\ (\E id \in Ids : items[id] # NoPaste /\ now >= items[id].ExpiresAt)
                     => resp'.count < Cardinality({id \in Ids : items[id] # NoPaste})
               /\ items' = items
               /\ heap' = heap)]_vars

(* the index page was just answered with a count of 0 while the container holds  *)
(* a paste that has expired and was not swept                                    *)
C21_Witness ==
    /\ resp.status = 200
    /\ resp.id = <<>>
    /\ "count" \in DOMAIN resp
    /\ resp.count = 0
    /\ \E id \in Ids : HoldsExpired(id)

(* the paste stored under id as a client sees it: its fields and its versions,   *)
(* whichever backing array holds them                                            *)
Seen(its, h, id) ==
    [p |-> [its[id] EXCEPT !.Versions = its[id].Versions.len],
     versions |-> Elems(h, its[id].Versions)]

(* C22, as claimed: a create, form or API, whose freshly generated identifier     *)
(* already denotes a live paste leaves that paste in place: a Get of the         *)
(* identifier right after still succeeds and returns the earlier paste, with its *)
(* fields and its versions as they were.                                         *)
C22_CreateKeepsLive ==
    [][/\ \A c \in Browsers, r \in CreateForms, id \in NewID(8), key \in NewID(12) :
            (handleCreate(c, r, id, key) /\ Get(items, id, now).ok)
                => (/\ Get(items', id, now).ok
                    /\ Seen(items', heap', id) = Seen(items, heap, id))
       /\ \A c \in Scripts, r \in CreateJSON, id \in NewID(8), key \in NewID(12) :
            (handleAPIPaste(c, r, id, key) /\ Get(items, id, now).ok)
                => (/\ Get(items', id, now).ok
                    /\ Seen(items', heap', id) = Seen(items, heap, id))]_vars

(* C23: NewID(n), for every n >= 1 it is called with, returns a string that is   *)
(* not empty and consists of letters, digits, '-' and '_' only, when rand.Read   *)
(* fills its buffer and when rand.Read fails; so do both calls of buildPaste.    *)
C23_NewIDUsable ==
    /\ ret.fn = "NewID" =>
          (/\ ret.s # <<>>
           /\ \A i \in 1..Len(ret.s) : URLSafe(ret.s[i]))
    /\ ret.fn = "buildPaste" =>
          (/\ ret.ID # <<>>
           /\ ret.EditKey # <<>>
           /\ \A i \in 1..Len(ret.ID) : URLSafe(ret.ID[i])
           /\ \A i \in 1..Len(ret.EditKey) : URLSafe(ret.EditKey[i]))

(* NewID(8) was called, rand.Read failed, and the string returned is the clock   *)
(* reading 23:59:59.999, encoded                                                 *)
C23_Witness ==
    /\ call.fn = "NewID"
    /\ call.n = 8
    /\ call.rd.err
    /\ ret.fn = "NewID"
    /\ ret.s = EncodeToString(<<50, 51, 53, 57, 53, 57, 46, 57, 57, 57>>)
    /\ Len(ret.s) = 14

(* C24, as claimed: the string NewID(n) returns has ceil(4n/3) characters on     *)
(* every path, so the EditKey buildPaste generates (12 bytes) is strictly longer *)
(* than the ID it generates (8 bytes), also when rand.Read fails.                *)
C24_KeyLongerThanID ==
    /\ ret.fn = "NewID" => Len(ret.s) = (4 * call.n + 2) \div 3
    /\ ret.fn = "buildPaste" => Len(ret.EditKey) > Len(ret.ID)

(* C25: for every content string s, GzipDecode(GzipEncode(s)) returns s and no   *)
(* error; the empty string, strings of white space and strings with repeated     *)
(* tokens included.                                                              *)
C25_GzipRoundTrip ==
    ret.fn = "Gzip" => ret.out = [ok |-> TRUE, s |-> call.s]

(* a string with a repeated token and a trailing space went through: the stream  *)
(* holds a run of two and the decoder returned the three tokens                  *)
C25_Witness ==
    /\ ret.fn = "Gzip"
    /\ call.s = <<"a", "a", " ">>
    /\ ret.z = <<Header, Run("a", 2), Run(" ", 1), Trailer(3)>>
    /\ ret.out.ok
    /\ Len(ret.out.s) = 3

(* C26, as claimed: when the version a raw read needs does not decode, the read  *)
(* fails and reports it: it is not answered 200, and no empty body is served in  *)
(* the place of the content.                                                     *)
C26_DecodeFailureSurfaced ==
    [][\A c \in Scripts :
          \A v \in Load(c) :
              (handleRaw_Write(c, v) /\ ~GzipDecode(v.ZCode).ok)
                  => (resp'.status # 200 /\ resp'.body # <<>>)]_vars

(* C27: ParseTTL maps "1h" to 1 hour, "24h" and the empty string to 24 hours,    *)
(* "168h" and "7d" to 168 hours, and every other string to what                  *)
(* time.ParseDuration makes of it: its value ("7h" is 7 hours, "-1h" is minus    *)
(* one hour, "0" is zero), or an error when it is no duration ("1d", "x", "h",   *)
(* "24").                                                                        *)
C27_ParseTTLTable ==
    ret.fn = "ParseTTL" =>
        LET s     == call.s
            fixed == {<<"1", "h">>, <<"24", "h">>, <<>>, <<"168", "h">>, <<"7", "d">>}
        IN /\ s = <<"1", "h">> => ret.out = [ok |-> TRUE, d |-> 1]
           /\ s \in {<<"24", "h">>, <<>>} => ret.out = [ok |-> TRUE, d |-> 24]
           /\ s \in {<<"168", "h">>, <<"7", "d">>} => ret.out = [ok |-> TRUE, d |-> 168]
           /\ s \notin fixed => ret.out = ParseDuration(s)
           /\ s = <<"7", "h">> => ret.out = [ok |-> TRUE, d |-> 7]
           /\ s = <<"-", "1", "h">> => ret.out = [ok |-> TRUE, d |-> 0 - 1]
           /\ s = <<"0">> => ret.out = [ok |-> TRUE, d |-> 0]
           /\ s \in {<<"1", "d">>, <<"x">>, <<"h">>, <<"24">>, <<"7", "d", "h">>} => ~ret.out.ok
           /\ ret.out.ok => (s \in fixed \/ ParseDuration(s).ok)

(* ParseTTL was called with "7d", which is no duration of time.ParseDuration,    *)
(* and returned 168 hours                                                        *)
C27_Witness ==
    /\ ret.fn = "ParseTTL"
    /\ call.s = <<"7", "d">>
    /\ ~ParseDuration(call.s).ok
    /\ ret.out = [ok |-> TRUE, d |-> 168]

(* C28: in every reachable state the Theme of every stored paste is "dark" or    *)
(* "light", and its Lang and the Lang of each of its versions are in Langs; an   *)
(* accepted create stores "dark" for a theme that is not in Themes and           *)
(* "plaintext" for a language that is not in Langs (the form values trimmed, the *)
(* JSON values as sent), and an edit leaves the Theme alone and holds a Lang of  *)
(* Langs when it writes back.                                                    *)
C28_ThemeLangNormalised ==
    /\ [](\A id \in Ids :
             items[id] # NoPaste =>
                 (/\ items[id].Theme \in Themes
                  /\ items[id].Lang \in Langs
                  /\ \A i \in 1..items[id].Versions.len : Stored(id)[i].Lang \in Langs))
    /\ [][/\ \A c \in Browsers, r \in CreateForms, id \in NewID(8), key \in NewID(12) :
              (handleCreate(c, r, id, key) /\ resp'.status = 303)
                  => (/\ items'[id].Theme = IF TrimSpace(r.theme) \in Themes
                                             THEN TrimSpace(r.theme) ELSE <<"dark">>
                      /\ items'[id].Lang = IF TrimSpace(r.lang) \in Langs
                                            THEN TrimSpace(r.lang) ELSE <<"plaintext">>
                      /\ StoredNext(id)[1].Lang = items'[id].Lang)
          /\ \A c \in Scripts, r \in CreateJSON, id \in NewID(8), key \in NewID(12) :
              (handleAPIPaste(c, r, id, key) /\ resp'.status = 200)
                  => (/\ items'[id].Theme = IF r.theme \in Themes THEN r.theme ELSE <<"dark">>
                      /\ items'[id].Lang = IF r.lang \in Langs THEN r.lang ELSE <<"plaintext">>
                      /\ StoredNext(id)[1].Lang = items'[id].Lang)
          /\ \A c \in Clients :
              AppendStep(c) => (loc'[c].Lang \in Langs /\ loc'[c].Theme = loc[c].Theme)]_vars

(* a paste created as "go" was edited through the API with the language " go",   *)
(* which is not in Langs: its second version and the paste are "plaintext"       *)
C28_Witness ==
    \E id \in Ids :
        /\ items[id] # NoPaste
        /\ items[id].Versions.len = 2
        /\ Stored(id)[1].Lang = <<"go">>
        /\ Stored(id)[2].Lang = <<"plaintext">>
        /\ items[id].Lang = <<"plaintext">>
        /\ items[id].Theme = <<"light">>

(* C29, as claimed: when an edit writes back over the paste it read (the same    *)
(* ID, created at the same time), the UpdatedAt stored after is not earlier than *)
(* the UpdatedAt stored before, however the edits interleave.                    *)
C29_UpdatedAtMonotone ==
    [][\A c \in Clients :
          (/\ PutStep(c)
           /\ items[loc[c].ID] # NoPaste
           /\ items[loc[c].ID].CreatedAt = loc[c].CreatedAt)
              => items'[loc[c].ID].UpdatedAt >= items[loc[c].ID].UpdatedAt]_vars

(* C30, as claimed: in every reachable state the Lang of every stored paste is   *)
(* the Lang of its last version and its Code is the decoded content of its last  *)
(* version.                                                                      *)
C30_SummaryMirrorsLast ==
    \A id \in Ids :
        items[id] # NoPaste =>
            LET last == Stored(id)[items[id].Versions.len]
            IN /\ items[id].Lang = last.Lang
               /\ GzipDecode(last.ZCode) = [ok |-> TRUE, s |-> items[id].Code]

(* C31, as claimed: in every stored paste the timestamps of the versions are     *)
(* non-decreasing in the order of the sequence and the timestamp of the first    *)
(* version is CreatedAt, however concurrent edits interleave.                    *)
C31_VersionsChronological ==
    \A id \in Ids :
        items[id] # NoPaste =>
            (/\ Stored(id)[1].At = items[id].CreatedAt
             /\ \A i \in 1..(items[id].Versions.len - 1) :
                   Stored(id)[i].At <= Stored(id)[i + 1].At)

(* a goroutine is inside a method of Store *)
InStore(c) == lk[c] # NoCall

(* a step of a goroutine that is inside a method of Store *)
StoreStep ==
    \/ \E c \in Clients : RLock(c) \/ Lock(c) \/ Store_Return(c)
    \/ janitor_Lock
    \/ janitor_Unlock

(* C32: no interleaving of Put, Get, CountActive, edit requests and passes of    *)
(* the janitor deadlocks.  The lock is held for writing by one goroutine and     *)
(* then by no reader; it is held exactly by the goroutines between the Lock or   *)
(* RLock and the Unlock or RUnlock of one method, so a method that has returned  *)
(* holds nothing; while any goroutine is inside a method some goroutine inside a *)
(* method can step; and every call of a method, and every pass, completes.       *)
C32_NoDeadlock ==
    /\ [](/\ mu.w # NoOne => mu.readers = {}
          /\ \A c \in Clients :
                /\ c \in mu.readers <=> lk[c].at = "RUnlock"
                /\ mu.w = c <=> lk[c].at = "Unlock"
          /\ mu.w = Janitor <=> jpc = "sweep"
          /\ ((\E c \in Clients : InStore(c)) \/ jpc \in {"pass", "sweep"})
                => ENABLED StoreStep)
    /\ \A c \in Clients : InStore(c) ~> ~InStore(c)
    /\ (jpc = "pass") ~> (jpc = "select")

(* one request holds the lock for reading, the janitor waits for it at its Lock, *)
(* and another request is blocked at its RLock behind the janitor                *)
C32_Witness ==
    /\ mu.readers # {}
    /\ jpc = "pass"
    /\ ReadersWaiting # {}

(* the edit handler of client c has found the content and the language of the    *)
(* request equal to those of the last version it read, and goes on to its Put    *)
NoOpStep(c) == AppendStep(c) /\ loc'[c].Versions = loc[c].Versions

(* C33, as claimed: on an edit whose content and language equal the current      *)
(* version, Author and UpdatedAt are refreshed if the author of the request is   *)
(* not empty, and both are left as they were if it is empty.                     *)
C33_RefreshOnlyWithAuthor ==
    [][/\ \A c \in Browsers, b \in EditBodies :
            (handleEditSave_Append(c, now, b) /\ NoOpStep(c)) =>
                IF TrimSpace(b.author) # <<>>
                THEN loc'[c].Author = TrimSpace(b.author) /\ loc'[c].UpdatedAt = now
                ELSE loc'[c].Author = loc[c].Author /\ loc'[c].UpdatedAt = loc[c].UpdatedAt
       /\ \A c \in Scripts, b \in EditBodies :
            (handleAPIEdit_Append(c, now, b) /\ NoOpStep(c)) =>
                IF TrimSpace(b.author) # <<>>
                THEN loc'[c].Author = TrimSpace(b.author) /\ loc'[c].UpdatedAt = now
                ELSE loc'[c].Author = loc[c].Author /\ loc'[c].UpdatedAt = loc[c].UpdatedAt]_vars

(* C33, amended: on an edit whose content and language equal the last version of *)
(* the paste the handler read, no version is appended; the paste the handler     *)
(* writes back has the trimmed author of the request if that is not empty and    *)
(* the Author of the paste read if it is empty, and in both cases its UpdatedAt  *)
(* is the handler's reading of the clock; the Put stores exactly that paste.     *)
C33_NoOpEditRefreshes ==
    [][/\ \A c \in Browsers, b \in EditBodies :
            (handleEditSave_Append(c, now, b) /\ NoOpStep(c)) =>
                (/\ loc'[c].Author = IF TrimSpace(b.author) # <<>>
                                      THEN TrimSpace(b.author) ELSE loc[c].Author
                 /\ loc'[c].UpdatedAt = now
                 /\ ~appended'[c])
       /\ \A c \in Scripts, b \in EditBodies :
            (handleAPIEdit_Append(c, now, b) /\ NoOpStep(c)) =>
                (/\ loc'[c].Author = IF TrimSpace(b.author) # <<>>
                                      THEN TrimSpace(b.author) ELSE loc[c].Author
                 /\ loc'[c].UpdatedAt = now
                 /\ ~appended'[c])
       /\ \A c \in Clients :
            (PutStep(c) /\ ~appended[c]) => items'[loc[c].ID] = loc[c]]_vars

(* an edit that repeated the only version and named no author was written back   *)
(* in a later hour: the paste has its one version and the author of its          *)
(* creation, and its UpdatedAt is the hour of the edit                           *)
C33_Witness ==
    /\ resp.status \in {200, 303}
    /\ resp.versions = 1
    /\ items[resp.id] # NoPaste
    /\ items[resp.id].Versions.len = 1
    /\ items[resp.id].Author = Stored(resp.id)[1].Author
    /\ items[resp.id].Author # <<>>
    /\ items[resp.id].UpdatedAt = now
    /\ items[resp.id].CreatedAt < now

(* C34, as claimed: the view of a paste with N versions shows, for a parameter v *)
(* with 1 <= v <= N, version v as it is stored, and version N when v is missing, *)
(* is no number or is out of range; the index picked is within 1..N; version 1   *)
(* shows the content of the first version.                                      *)
C34_ViewShowsVersion ==
    [][\A c \in Browsers, vParam \in VParams, au \in AuthInputs :
          \A currVer \in LoadAt(c, vIdx(vParam, loc[c].Versions.len)) :
             handleView_Render(c, vParam, au, currVer) =>
                LET N == loc[c].Versions.len
                    a == Atoi(TrimSpace(vParam))
                    v == IF a.ok /\ 1 <= a.n /\ a.n <= N THEN a.n ELSE N
                    stored == heap[loc[c].Versions.arr][v]
                IN /\ resp'.vindex = v
                   /\ resp'.vindex \in 1..N
                   /\ resp'.versions = N
                   /\ GzipDecode(stored.ZCode) = [ok |-> TRUE, s |-> resp'.body]
                   /\ resp'.lang = stored.Lang]_vars

(* C35, as claimed: a caller who knows the identifier of an editable paste and   *)
(* not its edit key does not get the key from a read: the page the view handler  *)
(* answers such a caller with does not hold the EditKey; and the EditKey of a     *)
(* stored paste is never its identifier.                                         *)
C35_KeyNotDisclosed ==
    /\ [](\A id \in Ids :
             (items[id] # NoPaste /\ items[id].Editable) => items[id].EditKey # id)
    /\ [][\A c \in Browsers, vParam \in VParams, au \in AuthInputs :
             \A currVer \in LoadAt(c, vIdx(vParam, loc[c].Versions.len)) :
                (/\ handleView_Render(c, vParam, au, currVer)
                 /\ loc[c].Editable
                 /\ ~canEditPaste(au.key, au.cookie, loc[c]))
                    => resp'.editURL.key # loc[c].EditKey]_vars

(* C36, as claimed: in every stored paste no two adjacent versions have both the *)
(* same content and the same language.                                          *)
C36_NoAdjacentDuplicates ==
    \A id \in Ids :
        items[id] # NoPaste =>
            LET vs == Elems(heap, items[id].Versions)
            IN \A i \in 1..(Len(vs) - 1) :
                  ~ (/\ GzipDecode(vs[i].ZCode) = GzipDecode(vs[i + 1].ZCode)
                     /\ vs[i].Lang = vs[i + 1].Lang)

(* C37: an edit request, by the form or by the API, whose content is empty after *)
(* trimming is answered 400 and ends there, with the store and every stored     *)
(* version as they were; and every version of every stored paste decodes to     *)
(* content that is not empty.                                                   *)
C37_EmptyEditRejected ==
    /\ [](\A id \in Ids :
             items[id] # NoPaste =>
                \A i \in 1..Len(Stored(id)) :
                   LET d == GzipDecode(Stored(id)[i].ZCode)
                   IN d.ok /\ d.s # <<>>)
    /\ [][\A c \in Clients, b \in EditBodies :
             (/\ handleEditSave_Append(c, now, b) \/ handleAPIEdit_Append(c, now, b)
              /\ TrimSpace(b.code) = <<>>)
                 => /\ resp'.status = 400
                    /\ pc'[c] = "idle"
                    /\ items' = items
                    /\ \A id \in Ids :
                          items[id] # NoPaste => StoredNext(id) = Stored(id)]_vars

(* an edit of a stored paste with two versions was just refused for its content *)
C37_Witness ==
    /\ resp.status = 400
    /\ resp.id \in Ids
    /\ items[resp.id] # NoPaste
    /\ items[resp.id].Versions.len >= 2
    /\ \E c \in Clients : pc[c] \in {"save", "api"}

(* C38, as claimed: every stored paste has ExpiresAt strictly later than        *)
(* CreatedAt.                                                                   *)
C38_ExpiresAfterCreated ==
    \A id \in Ids : items[id] # NoPaste => items[id].ExpiresAt > items[id].CreatedAt

(* what a create request with TTL string s, read at time t, must leave behind *)
CreatedWithTTL(s, t, ok) ==
    IF ParseTTL(s).ok
    THEN /\ resp'.status = ok
         /\ items'[resp'.id].CreatedAt = t
         /\ items'[resp'.id].ExpiresAt = t + ParseTTL(s).d
    ELSE resp'.status = 400 /\ items' = items

(* C38, amended: every stored paste has ExpiresAt equal to CreatedAt plus the    *)
(* duration its TTL string denotes; a create request is refused for its TTL only *)
(* when the string denotes no duration; a zero or negative duration is accepted  *)
(* and stores a paste whose ExpiresAt is not later than its CreatedAt, which no   *)
(* Get at a later time returns.                                                 *)
C38_ExpiresAtFromTTL ==
    /\ [](\A id \in Ids :
             items[id] # NoPaste =>
                /\ \E s \in TTLInputs :
                      /\ ParseTTL(s).ok
                      /\ items[id].ExpiresAt = items[id].CreatedAt + ParseTTL(s).d
                /\ (items[id].ExpiresAt <= items[id].CreatedAt /\ now > items[id].CreatedAt)
                      => ~Get(items, id, now).ok)
    /\ [][/\ \A c \in Scripts, r \in TTLJSON, id \in NewID(8), key \in NewID(12) :
                handleAPIPaste(c, r, id, key) => CreatedWithTTL(r.ttl, now, 200)
          /\ \A c \in Browsers, r \in TTLForms, id \in NewID(8), key \in NewID(12) :
                handleCreate(c, r, id, key) => CreatedWithTTL(TrimSpace(r.ttl), now, 303)]_vars

(* a create with a negative duration was just accepted: the paste it stored had *)
(* expired before it was created                                                *)
C38_Witness ==
    /\ resp.status \in {200, 303}
    /\ resp.id \in Ids
    /\ items[resp.id] # NoPaste
    /\ items[resp.id].ExpiresAt < items[resp.id].CreatedAt
    /\ items[resp.id].CreatedAt = now

====
